---- MODULE Spec2Model ----
(***************************************************************************)
(* HMS finance management system: the committed store (events and their    *)
(* transactions), the request queue of pending change requests, the        *)
(* overlay merge of the event page and the approval of requests.           *)
(*                                                                         *)
(* Server side: the express handlers of the API (events, transactions,     *)
(* requests).  Client side: the handlers of the EventDetail page and of    *)
(* the Dashboard.  The client service layer (services/db) is modelled      *)
(* from the design document.                                               *)
(***************************************************************************)
EXTENDS Integers, Sequences, FiniteSets, TLC

(***************************************************************************)
(* Bounds of the model.                                                    *)
(***************************************************************************)
MaxClock == 3          \* ids and timestamps handed out
MaxEvents == 2         \* events in the store
MaxTransactions == 2   \* transactions per event
MaxRequests == 1       \* requests in the queue

(***************************************************************************)
(* Values.                                                                 *)
(***************************************************************************)
Roles == {"admin", "user", "assistant"}

\* Two filled-in transaction forms (newTxData of handleSaveTransaction).
FormTickets ==
  [name |-> "Tickets", amount |-> 500, date |-> "2024-05-01",
   type |-> "collection", description |-> "", image |-> ""]

FormHall ==
  [name |-> "Hall", amount |-> 400, date |-> "2024-05-02",
   type |-> "expense", description |-> "rent",
   image |-> "https://res.cloudinary.com/hms/image/upload/v1/hms/hall.jpg"]

Forms == {FormTickets, FormHall}

EventNames == {"Gala"}

TxFields == {"id", "name", "amount", "type", "image", "date", "description"}

NoTx == [id |-> 0]

NoRequest == [id |-> 0, type |-> "none"]

NoEvent == [id |-> 0]

\* user === null.
NoUser == [username |-> "", role |-> "none", originalRole |-> "none"]

\* seedAuth: the three accounts the server creates, one for each role.
seedAuth ==
  <<[role |-> "admin", username |-> "admin", password |-> "admin"],
    [role |-> "user", username |-> "user", password |-> "password"],
    [role |-> "assistant", username |-> "assi", password |-> "assi"]>>

\* The UI-only properties of a transaction object, when none is set.
NoOverlay ==
  [_isPending |-> FALSE, _requestId |-> 0, _pendingAction |-> "none",
   _pendingData |-> NoTx, _fullRequest |-> NoRequest]

(***************************************************************************)
(* Helpers on sequences.                                                   *)
(***************************************************************************)
Range(s) == {s[i] : i \in DOMAIN s}

\* Array.prototype.findIndex / find: the first index whose id matches, 0 if none.
FindIndex(s, id) ==
  IF \E i \in DOMAIN s : s[i].id = id
  THEN CHOOSE i \in DOMAIN s : s[i].id = id /\ \A j \in 1..(i - 1) : s[j].id # id
  ELSE 0

\* Array.prototype.filter.
Filter(s, Keep(_)) == SelectSeq(s, Keep)

\* Object spread { ...a, ...b }.
Spread(a, b) ==
  [f \in (DOMAIN a) \cup (DOMAIN b) |-> IF f \in DOMAIN b THEN b[f] ELSE a[f]]

\* Casting an object to the TransactionSchema sub-document keeps the schema's paths.
CastTransaction(o) == [f \in (DOMAIN o) \cap TxFields |-> o[f]]

\* The orders in which a collection scan can hand back the documents of s.
Orderings(s) == {[i \in DOMAIN s |-> s[b[i]]] : b \in Permutations(DOMAIN s)}

(***************************************************************************)
(* State.                                                                  *)
(***************************************************************************)
VARIABLES
  events,               \* Event collection: documents in collection order
  requests,             \* Request collection: documents in collection order
  clock,                \* the next generated id; also the current time
  id,                   \* EventDetail: useParams().id, 0 when on another page
  event,                \* EventDetail: useState event
  displayTransactions,  \* EventDetail: useState displayTransactions
  approveStep,          \* approveRequest in flight: number of its next call, 0 when idle
  approveReq,           \* approveRequest in flight: the request object it was called with
  approveCaller,        \* the handler that awaits approveRequest
  last,                 \* history: the approval, reject or cancel that was the last thing done
  resolved,             \* history: ids of the requests removed from the queue
  isDbConnected,        \* server: let isDbConnected
  inflight,             \* server: POST /api/requests handlers between their awaits
  user,                 \* App: useState user, the session of the browser
  testingMode,          \* App: useState testingMode
  auth                  \* Auth collection: documents in collection order

serverVars == <<events, requests, clock>>
pageVars == <<id, event, displayTransactions>>
approveVars == <<approveStep, approveReq, approveCaller>>
historyVars == <<last, resolved>>
connectionVars == <<isDbConnected, inflight>>
sessionVars == <<user, testingMode, auth>>
vars == <<events, requests, clock, id, event, displayTransactions,
          approveStep, approveReq, approveCaller, last, resolved,
          isDbConnected, inflight, user, testingMode, auth>>

(***************************************************************************)
(* Server: the handlers of the API, as functions of the collections.       *)
(***************************************************************************)
\* Event.findOne({ id }): index of the document, 0 when there is none.
FindEvent(evs, eid) == FindIndex(evs, eid)

\* app.get('/api/events/:id')
GetEvent(evs, eid) == IF FindEvent(evs, eid) = 0 THEN NoEvent ELSE evs[FindEvent(evs, eid)]

\* app.get('/api/events'): Event.find({ isDeleted: false })
GetEvents(evs) == LET Live(e) == ~e.isDeleted IN Filter(evs, Live)

\* app.get('/api/events/deleted'): Event.find({ isDeleted: true })
GetEventsDeleted(evs) == LET Deleted(e) == e.isDeleted IN Filter(evs, Deleted)

\* app.post('/api/events'): Event.create(req.body); id is a unique index.
PostEvents(evs, body) ==
  IF FindEvent(evs, body.id) # 0
  THEN [status |-> 500, events |-> evs]
  ELSE [status |-> 200, events |-> Append(evs, body)]

\* Variant: the event is deleted from the collection.
PutEventDeleteRemoves(evs, eid) ==
  LET i == FindEvent(evs, eid)
  IN [status |-> 200,
      events |-> IF i = 0 THEN evs
                 ELSE SubSeq(evs, 1, i - 1) \o SubSeq(evs, i + 1, Len(evs))]

\* app.put('/api/events/:id/delete')
PutEventDelete(evs, eid) ==
  LET i == FindEvent(evs, eid)
  IN [status |-> 200,
      events |-> IF i = 0 THEN evs ELSE [evs EXCEPT ![i].isDeleted = TRUE]]

\* app.put('/api/events/:id/restore')
PutEventRestore(evs, eid) ==
  LET i == FindEvent(evs, eid)
  IN [status |-> 200,
      events |-> IF i = 0 THEN evs ELSE [evs EXCEPT ![i].isDeleted = FALSE]]

\* The images kept at Cloudinary and the public id the handlers extract from
\* their URL (the part after /upload/ and the version, without the extension).
CloudinaryImages == {FormHall.image}

PublicId(image) == IF image = FormHall.image THEN "hms/hall" ELSE ""

\* tx.image && tx.image.includes('cloudinary.com'), and a public id was extracted.
HasRelease(tx) == tx.image \in CloudinaryImages /\ PublicId(tx.image) # ""

\* The transactions of event eid whose image the permanent delete releases.
HeldBy(evs, eid) ==
  IF FindEvent(evs, eid) = 0 THEN {}
  ELSE {t \in Range(evs[FindEvent(evs, eid)].transactions) : HasRelease(t)}

\* The delete of transaction txId of event eid releases an image.
Releases(evs, eid, txId) == \E t \in HeldBy(evs, eid) : t.id = txId

\* The outcomes of the destroy calls of a handler: a call made resolves
\* (TRUE) or rejects (FALSE); without a call there is nothing to reject.
DestroyOutcomes(calls) == IF calls THEN BOOLEAN ELSE {TRUE}

\* Variant: a destroy that fails is logged and the delete goes on.
DeleteEventBestEffort(evs, eid, destroys) ==
  LET i == FindEvent(evs, eid)
      held == IF i = 0 THEN {} ELSE {t \in Range(evs[i].transactions) : HasRelease(t)}
  IN [status |-> 200,
      destroy |-> {PublicId(t.image) : t \in held},
      events |-> IF i = 0 THEN evs
                 ELSE SubSeq(evs, 1, i - 1) \o SubSeq(evs, i + 1, Len(evs))]

\* app.delete('/api/events/:id'): the permanent delete.  The destroy calls of
\* the images are awaited with Promise.all before the event is deleted;
\* destroys = FALSE: a destroy call rejects, the handler answers 500.
DeleteEvent(evs, eid, destroys) ==
  LET i == FindEvent(evs, eid)
      held == IF i = 0 THEN {} ELSE {t \in Range(evs[i].transactions) : HasRelease(t)}
  IN IF held # {} /\ ~destroys
     THEN [status |-> 500, destroy |-> {PublicId(t.image) : t \in held}, events |-> evs]
     ELSE [status |-> 200,
           destroy |-> {PublicId(t.image) : t \in held},
           events |-> IF i = 0 THEN evs
                      ELSE SubSeq(evs, 1, i - 1) \o SubSeq(evs, i + 1, Len(evs))]

\* Variant: the handler answers without saving the event.
PostEventTransactionsNoSave(evs, eid, body) ==
  [status |-> IF FindEvent(evs, eid) = 0 THEN 404 ELSE 200, events |-> evs]

\* app.post('/api/events/:id/transactions')
PostEventTransactions(evs, eid, body) ==
  LET i == FindEvent(evs, eid)
  IN IF i = 0 THEN [status |-> 404, events |-> evs]
     ELSE [status |-> 200,
           events |-> [evs EXCEPT ![i].transactions =
                         Append(@, CastTransaction(body))]]

\* Variant: the fields of the stored record win over those of the body.
PutEventTransactionKeepsOld(evs, eid, txId, body) ==
  LET i == FindEvent(evs, eid)
  IN IF i = 0 THEN [status |-> 404, events |-> evs]
     ELSE LET idx == FindIndex(evs[i].transactions, txId)
          IN [status |-> 200,
              events |-> IF idx = 0 THEN evs
                         ELSE [evs EXCEPT ![i].transactions[idx] =
                                 CastTransaction(Spread(body, @))]]

\* Variant: a transaction that is not found is inserted (an upsert).
PutEventTransactionUpsert(evs, eid, txId, body) ==
  LET i == FindEvent(evs, eid)
  IN IF i = 0 THEN [status |-> 404, events |-> evs]
     ELSE LET idx == FindIndex(evs[i].transactions, txId)
          IN [status |-> 200,
              events |-> IF idx = 0
                         THEN [evs EXCEPT ![i].transactions = Append(@, CastTransaction(body))]
                         ELSE [evs EXCEPT ![i].transactions[idx] =
                                 CastTransaction(Spread(@, body))]]

\* app.put('/api/events/:id/transactions/:txId')
PutEventTransaction(evs, eid, txId, body) ==
  LET i == FindEvent(evs, eid)
  IN IF i = 0 THEN [status |-> 404, events |-> evs]
     ELSE LET idx == FindIndex(evs[i].transactions, txId)
          IN [status |-> 200,
              events |-> IF idx = 0 THEN evs
                         ELSE [evs EXCEPT ![i].transactions[idx] =
                                 CastTransaction(Spread(@, body))]]

\* Variant: a destroy that fails fails the handler.
DeleteEventTransactionStrict(evs, eid, txId, destroys) ==
  LET i == FindEvent(evs, eid)
      Other(t) == t.id # txId
      idx == IF i = 0 THEN 0 ELSE FindIndex(evs[i].transactions, txId)
      releases == idx # 0 /\ HasRelease(evs[i].transactions[idx])
  IN IF i = 0 THEN [status |-> 404, destroy |-> {}, events |-> evs]
     ELSE IF releases /\ ~destroys
     THEN [status |-> 500, destroy |-> {PublicId(evs[i].transactions[idx].image)},
           events |-> evs]
     ELSE [status |-> 200,
           destroy |-> IF releases THEN {PublicId(evs[i].transactions[idx].image)} ELSE {},
           events |-> [evs EXCEPT ![i].transactions = Filter(@, Other)]]

\* app.delete('/api/events/:id/transactions/:txId'): the destroy call of the
\* image is inside a try/catch of its own; destroys = FALSE: it rejects.
DeleteEventTransaction(evs, eid, txId, destroys) ==
  LET i == FindEvent(evs, eid)
      Other(t) == t.id # txId
      idx == IF i = 0 THEN 0 ELSE FindIndex(evs[i].transactions, txId)
      releases == idx # 0 /\ HasRelease(evs[i].transactions[idx])
  IN IF i = 0 THEN [status |-> 404, destroy |-> {}, events |-> evs]
     ELSE [status |-> 200,
           destroy |-> IF releases THEN {PublicId(evs[i].transactions[idx].image)} ELSE {},
           events |-> [evs EXCEPT ![i].transactions = Filter(@, Other)]]

\* app.get('/api/requests'): Request.find({}) without a sort; the order of the
\* documents is whatever the collection scan yields.
GetRequests(reqs) == Orderings(reqs)

\* app.post('/api/requests'), up to Request.create: requestData.  For an
\* update_transaction request the stored transaction is looked up and kept
\* in the payload as originalTransaction.
PostRequestsData(evs, body) ==
  LET i == IF body.type = "update_transaction" THEN FindEvent(evs, body.data.eventId) ELSE 0
      idx == IF i = 0 THEN 0 ELSE FindIndex(evs[i].transactions, body.data.transaction.id)
  IN IF idx = 0 THEN body
     ELSE [body EXCEPT !.data =
             Spread(@, [originalTransaction |-> evs[i].transactions[idx]])]

\* Variant: the document is written over the one inserted last.
RequestCreateOverwrites(reqs, requestData) ==
  IF FindIndex(reqs, requestData.id) # 0
  THEN [status |-> 500, requests |-> reqs]
  ELSE [status |-> 200,
        requests |-> IF reqs = <<>> THEN <<requestData>>
                     ELSE [reqs EXCEPT ![Len(reqs)] = requestData]]

\* Request.create(requestData): one insert; id is a unique index.
RequestCreate(reqs, requestData) ==
  IF FindIndex(reqs, requestData.id) # 0
  THEN [status |-> 500, requests |-> reqs]
  ELSE [status |-> 200, requests |-> Append(reqs, requestData)]

\* app.post('/api/requests')
PostRequests(reqs, evs, body) == RequestCreate(reqs, PostRequestsData(evs, body))

\* app.put('/api/requests/:id'): Request.findOneAndUpdate({ id }, req.body)
PutRequest(reqs, rid, body) ==
  LET i == FindIndex(reqs, rid)
  IN [status |-> 200,
      requests |-> IF i = 0 THEN reqs ELSE [reqs EXCEPT ![i] = Spread(@, body)]]

\* Variant: without a match the first document is deleted.
DeleteRequestOrFirst(reqs, rid) ==
  LET i == IF FindIndex(reqs, rid) = 0 /\ reqs # <<>> THEN 1 ELSE FindIndex(reqs, rid)
  IN [status |-> 200,
      requests |-> IF i = 0 THEN reqs
                   ELSE SubSeq(reqs, 1, i - 1) \o SubSeq(reqs, i + 1, Len(reqs))]

\* Variant: the filter of findOneAndDelete matches no document.
DeleteRequestNoMatch(reqs, rid) == [status |-> 200, requests |-> reqs]

\* app.delete('/api/requests/:id'): Request.findOneAndDelete({ id })
DeleteRequest(reqs, rid) ==
  LET i == FindIndex(reqs, rid)
  IN [status |-> 200,
      requests |-> IF i = 0 THEN reqs
                   ELSE SubSeq(reqs, 1, i - 1) \o SubSeq(reqs, i + 1, Len(reqs))]

\* Variant: updateOne, the first document alone is marked.
PostRequestsMarkReadOne(reqs) ==
  [status |-> 200,
   requests |-> [i \in DOMAIN reqs |-> IF i = 1 THEN [reqs[i] EXCEPT !.isRead = TRUE]
                                       ELSE reqs[i]]]

\* app.post('/api/requests/mark-read'): Request.updateMany({}, { isRead: true })
PostRequestsMarkRead(reqs) ==
  [status |-> 200, requests |-> [i \in DOMAIN reqs |-> [reqs[i] EXCEPT !.isRead = TRUE]]]

\* connectDB(): the value of isDbConnected it leaves.  connects: whether
\* mongoose.connect resolves when it is tried.
connectDB(connected, connects) == connected \/ connects

\* Variant: next() is called whatever the connection.
checkDbConnectionAlwaysNext(connected, connects) ==
  [isDbConnected |-> connectDB(connected, connects), next |-> TRUE]

\* checkDbConnection: the middleware of /api.  next: the handler runs;
\* otherwise the answer is 503.
checkDbConnection(connected, connects) ==
  [isDbConnected |-> connectDB(connected, connects),
   next |-> connectDB(connected, connects)]

(***************************************************************************)
(* Client service layer (services/db): one function per API call.          *)
(***************************************************************************)
\* createEvent(name): a new event document with a generated id.
createEvent(evs, name, newId) ==
  PostEvents(evs, [id |-> newId, name |-> name, isDeleted |-> FALSE, transactions |-> <<>>])

deleteEvent(evs, eid) == PutEventDelete(evs, eid)

restoreEvent(evs, eid) == PutEventRestore(evs, eid)

permanentlyDeleteEvent(evs, eid, destroys) == DeleteEvent(evs, eid, destroys)

\* addTransaction(eventId, fields): the fields with a generated id.
addTransaction(evs, eid, fields, newId) ==
  PostEventTransactions(evs, eid, Spread(fields, [id |-> newId]))

updateTransaction(evs, eid, tx) == PutEventTransaction(evs, eid, tx.id, tx)

deleteTransaction(evs, eid, txId, destroys) ==
  DeleteEventTransaction(evs, eid, txId, destroys)

\* createRequest(type, data, description, requestedBy): the request is born
\* with a generated id, the current time and isRead = false.
createRequest(reqs, evs, type, data, description, requestedBy, now) ==
  PostRequests(reqs, evs,
    [id |-> now, type |-> type, data |-> data, description |-> description,
     timestamp |-> now, requestedBy |-> requestedBy, isRead |-> FALSE])

\* updateRequest(id, data, description): new payload and description, a new
\* timestamp, and the request counts as a fresh notification.
updateRequest(reqs, rid, data, description, now) ==
  PutRequest(reqs, rid,
    [data |-> data, description |-> description, timestamp |-> now, isRead |-> FALSE])

deleteRequest(reqs, rid) == DeleteRequest(reqs, rid)

\* getPendingRequestsByEvent(id): the requests whose payload names the event.
getPendingRequestsByEvent(fetched, eid) ==
  LET ForEvent(r) == "eventId" \in DOMAIN r.data /\ r.data.eventId = eid
  IN Filter(fetched, ForEvent)

\* Variant: the effect is taken from the document the queue holds under the
\* id of the request when the call is made.
approveEffectCurrent(evs, held, newId, destroys) ==
  LET req == IF FindIndex(requests, held.id) = 0 THEN held
             ELSE requests[FindIndex(requests, held.id)]
  IN CASE req.type = "create_event" ->
            Spread(createEvent(evs, req.data.name, newId), [generated |-> TRUE])
       [] req.type = "delete_event" ->
            Spread(deleteEvent(evs, req.data.eventId), [generated |-> FALSE])
       [] req.type = "add_transaction" ->
            Spread(addTransaction(evs, req.data.eventId, req.data.transaction, newId),
                   [generated |-> TRUE])
       [] req.type = "update_transaction" ->
            Spread(updateTransaction(evs, req.data.eventId, req.data.transaction),
                   [generated |-> FALSE])
       [] req.type = "delete_transaction" ->
            Spread(deleteTransaction(evs, req.data.eventId, req.data.transactionId, destroys),
                   [generated |-> FALSE])

\* approveRequest(req): the effect of the request on the committed store,
\* by kind.  generated is TRUE when the call minted an id.
approveEffect(evs, req, newId, destroys) ==
  CASE req.type = "create_event" ->
         Spread(createEvent(evs, req.data.name, newId), [generated |-> TRUE])
    [] req.type = "delete_event" ->
         Spread(deleteEvent(evs, req.data.eventId), [generated |-> FALSE])
    [] req.type = "add_transaction" ->
         Spread(addTransaction(evs, req.data.eventId, req.data.transaction, newId),
                [generated |-> TRUE])
    [] req.type = "update_transaction" ->
         Spread(updateTransaction(evs, req.data.eventId, req.data.transaction),
                [generated |-> FALSE])
    [] req.type = "delete_transaction" ->
         Spread(deleteTransaction(evs, req.data.eventId, req.data.transactionId, destroys),
                [generated |-> FALSE])

\* Variant: the request is deleted before its effect is applied.
approveRequestStepsDeleteFirst == <<"delete", "effect">>

\* approveRequest(req): the calls it makes, in order.
approveRequestSteps == <<"effect", "delete">>

\* approveRequest(req): the answers of the effect call it goes on after.  A
\* target that is not found is not an error of the approval.
approveRequestAbsorbs(status) == status \in {200, 404}

\* Variant: the error of a call is swallowed and the next call is made.
approveRequestOnErrorContinues(n) == n + 1

\* approveRequest(req): where it continues after the call of step n failed
\* (0: the error propagates to the caller and nothing else is called).
approveRequestOnError(n) == 0

(***************************************************************************)
(* EventDetail.loadEvent: the overlay merge.                               *)
(***************************************************************************)
\* A transaction object as fetched: none of the UI-only properties is set.
FetchedTransaction(t) == Spread(NoOverlay, t)

\* Variant: the row of an update request shows the proposed values.
MergeRequestShowsProposed(merged, req) ==
  CASE req.type = "add_transaction" ->
         Append(merged,
                Spread(Spread(NoOverlay, req.data.transaction),
                       [id |-> req.id, _isPending |-> TRUE, _requestId |-> req.id,
                        _pendingAction |-> "add", _fullRequest |-> req]))
    [] req.type = "update_transaction" ->
         LET i == FindIndex(merged, req.data.transaction.id)
         IN IF i = 0 THEN merged
            ELSE [merged EXCEPT ![i] =
                    Spread(Spread(@, req.data.transaction),
                           [_isPending |-> TRUE, _requestId |-> req.id,
                            _pendingAction |-> "update",
                            _pendingData |-> req.data.transaction,
                            _fullRequest |-> req])]
    [] req.type = "delete_transaction" ->
         LET i == FindIndex(merged, req.data.transactionId)
         IN IF i = 0 THEN merged
            ELSE [merged EXCEPT ![i] =
                    Spread(@, [_isPending |-> TRUE, _requestId |-> req.id,
                               _pendingAction |-> "delete", _fullRequest |-> req])]
    [] OTHER -> merged

\* Variant: an add request is shown only while no row is pending yet.
MergeRequestOnePending(merged, req) ==
  CASE req.type = "add_transaction" ->
         IF \E i \in DOMAIN merged : merged[i]._isPending THEN merged
         ELSE Append(merged,
                Spread(Spread(NoOverlay, req.data.transaction),
                       [id |-> req.id, _isPending |-> TRUE, _requestId |-> req.id,
                        _pendingAction |-> "add", _fullRequest |-> req]))
    [] req.type = "update_transaction" ->
         LET i == FindIndex(merged, req.data.transaction.id)
         IN IF i = 0 THEN merged
            ELSE [merged EXCEPT ![i] =
                    Spread(@, [_isPending |-> TRUE, _requestId |-> req.id,
                               _pendingAction |-> "update",
                               _pendingData |-> req.data.transaction,
                               _fullRequest |-> req])]
    [] req.type = "delete_transaction" ->
         LET i == FindIndex(merged, req.data.transactionId)
         IN IF i = 0 THEN merged
            ELSE [merged EXCEPT ![i] =
                    Spread(@, [_isPending |-> TRUE, _requestId |-> req.id,
                               _pendingAction |-> "delete", _fullRequest |-> req])]
    [] OTHER -> merged

\* The body of pendingRequests.forEach: one request folded into the array.
\* find() returns the object itself, so setting a property of `existing`
\* changes the element of the array in place.
MergeRequest(merged, req) ==
  CASE req.type = "add_transaction" ->
         Append(merged,
                Spread(Spread(NoOverlay, req.data.transaction),
                       [id |-> req.id, _isPending |-> TRUE, _requestId |-> req.id,
                        _pendingAction |-> "add", _fullRequest |-> req]))
    [] req.type = "update_transaction" ->
         LET i == FindIndex(merged, req.data.transaction.id)
         IN IF i = 0 THEN merged
            ELSE [merged EXCEPT ![i] =
                    Spread(@, [_isPending |-> TRUE, _requestId |-> req.id,
                               _pendingAction |-> "update",
                               _pendingData |-> req.data.transaction,
                               _fullRequest |-> req])]
    [] req.type = "delete_transaction" ->
         LET i == FindIndex(merged, req.data.transactionId)
         IN IF i = 0 THEN merged
            ELSE [merged EXCEPT ![i] =
                    Spread(@, [_isPending |-> TRUE, _requestId |-> req.id,
                               _pendingAction |-> "delete", _fullRequest |-> req])]
    [] OTHER -> merged

RECURSIVE MergeRequests(_, _)
MergeRequests(merged, reqs) ==
  IF reqs = <<>> THEN merged
  ELSE MergeRequests(MergeRequest(merged, Head(reqs)), Tail(reqs))

\* mergedTransactions after the forEach, for the fetched event and requests.
MergedTransactions(data, eventRequests) ==
  MergeRequests([i \in DOMAIN data.transactions |-> FetchedTransaction(data.transactions[i])],
                eventRequests)

\* loadEvent: the page state it leaves.  [...data.transactions] copies the
\* array, not the objects: the first Len(data.transactions) elements of
\* mergedTransactions are the objects of data.transactions themselves, and
\* data is the object handed to setEvent.
loadEvent(evs, fetched, eid) ==
  LET data == GetEvent(evs, eid)
      merged == MergedTransactions(data, getPendingRequestsByEvent(fetched, eid))
  IN IF data = NoEvent
     THEN [id |-> 0, event |-> NoEvent, displayTransactions |-> <<>>]
     ELSE [id |-> eid,
           event |-> [data EXCEPT !.transactions = SubSeq(merged, 1, Len(data.transactions))],
           displayTransactions |-> merged]

(***************************************************************************)
(* Initial state: empty collections, nobody on an event page.              *)
(***************************************************************************)
\* last: what the operation that has just been done was, when it was an
\* approval, a reject or a cancel: its kind, its request, and for an approval
\* the outcome of its effect ("none", "ok", "notfound", "unavailable" when
\* the store failed, "failed" when the answer was an error), whether the
\* call removed the request from the queue, how the call ended ("no",
\* "returned", "threw"), and, when the call repeats the approval that ended
\* right before it, how that one ended.  loaded: the operation ended with a
\* loadEvent() that computed the merged view now displayed.
NoLast ==
  [op |-> "none", by |-> "none", req |-> NoRequest, effect |-> "none", removed |-> FALSE,
   ended |-> "no", again |-> "no", loaded |-> FALSE]

NoEditing == Spread(NoOverlay, NoTx)

Init ==
  /\ events = <<>>
  /\ requests = <<>>
  /\ clock = 1
  /\ id = 0
  /\ event = NoEvent
  /\ displayTransactions = <<>>
  /\ approveStep = 0
  /\ approveReq = NoRequest
  /\ approveCaller = "none"
  /\ last = NoLast
  /\ resolved = {}
  /\ isDbConnected = TRUE
  /\ inflight = {}
  /\ user = NoUser
  /\ testingMode = FALSE
  /\ auth = seedAuth

(***************************************************************************)
(* Pieces shared by the handlers.                                          *)
(***************************************************************************)
Username(role) == role

\* The properties a transaction object of the page really has: the UI-only
\* ones exist only on objects the merge has flagged or synthesized.
OwnProps(o) == IF o._isPending THEN o ELSE [f \in (DOMAIN o) \ (DOMAIN NoOverlay) |-> o[f]]

\* Variant: the buttons are rendered for every role.
CanManageAnyRole(role) == TRUE

\* user.role === 'admin' || user.role === 'assistant': the roles the
\* buttons that create, edit and delete are rendered for.
CanManage(role) == role \in {"admin", "assistant"}

\* TransactionList: which row buttons a role is shown.
ShowsApprove(role, tx) == role = "admin" /\ tx._isPending

ShowsEdit(role, tx) ==
  CanManage(role) /\ ~ShowsApprove(role, tx) /\ tx._pendingAction # "delete"

ShowsDelete(role, tx) == CanManage(role) /\ ~ShowsApprove(role, tx)

\* A trailing loadEvent() of the page showing event eid, against the
\* collections evs and reqs.
ReloadPage(evs, reqs, eid) ==
  IF eid = 0 THEN UNCHANGED <<id, event, displayTransactions>>
  ELSE \E fetched \in GetRequests(reqs) :
         LET page == loadEvent(evs, fetched, eid)
         IN /\ id' = page.id
            /\ event' = page.event
            /\ displayTransactions' = page.displayTransactions

LeavePage ==
  /\ id' = 0
  /\ event' = NoEvent
  /\ displayTransactions' = <<>>

\* History: request rid is deleted from the queue by a reject or a cancel.
Resolve(role, rid, how, loaded) ==
  /\ resolved' = IF FindIndex(requests, rid) # 0 THEN resolved \cup {rid} ELSE resolved
  /\ last' = [NoLast EXCEPT !.op = how, !.by = role,
                            !.req = IF FindIndex(requests, rid) # 0
                                    THEN requests[FindIndex(requests, rid)] ELSE NoRequest,
                            !.removed = FindIndex(requests, rid) # 0,
                            !.loaded = loaded]

\* History: the operation is none of the above.
Forget(role, loaded) == last' = [NoLast EXCEPT !.by = role, !.loaded = loaded]

\* The calls of approveRequest follow each other without another handler
\* running in between; while a call is in flight the other handlers wait.
Idle == approveStep = 0

(***************************************************************************)
(* EventDetail: loading.                                                   *)
(***************************************************************************)
\* useEffect(() => loadEvent(), [id]) and the BroadcastChannel listener.
useEffectLoadEvent(eid) ==
  /\ Idle
  /\ eid # 0
  /\ ReloadPage(events, requests, eid)
  /\ Forget("none", id' # 0)
  /\ UNCHANGED <<serverVars, approveVars, resolved>>
  /\ UNCHANGED <<connectionVars, sessionVars>>

\* loadRequests(): what the requests list of a page shows once loaded: all
\* requests for the admin, its own for the assistant (Dashboard).  The lists
\* are loaded when the page mounts and when the requests modal opens.
loadRequests(reqs, role) ==
  LET Mine(r) == r.requestedBy = Username(role)
  IN IF role = "admin" THEN Range(reqs)
     ELSE IF role = "assistant" THEN Range(Filter(reqs, Mine))
     ELSE {}

\* loadSettingsData(): the recycle bin of the settings modal; the deleted
\* events are fetched for the admin only.
loadSettingsData(evs, role) == IF role = "admin" THEN Range(GetEventsDeleted(evs)) ELSE {}

(***************************************************************************)
(* EventDetail: handleSaveTransaction.                                     *)
(***************************************************************************)
AddDescription(form, eventName) == <<"Add Transaction", form.name, form.amount, eventName>>

UpdateDescription(form, eventName) == <<"Update Transaction", form.name, eventName>>

handleSaveTransaction(role, formData, editingTransaction) ==
  /\ Idle
  /\ event # NoEvent
  /\ IF editingTransaction # NoEditing THEN ShowsEdit(role, editingTransaction)
     ELSE CanManage(role)
  /\ LET newTxData == formData
         payload(tx) == [eventId |-> event.id, eventName |-> event.name, transaction |-> tx]
         editsRequest == /\ editingTransaction # NoEditing
                         /\ editingTransaction._isPending
                         /\ editingTransaction._requestId # 0
         originalId == IF editingTransaction._pendingData # NoTx
                       THEN editingTransaction._pendingData.id
                       ELSE editingTransaction.id
         updated == Spread(Spread(OwnProps(editingTransaction), newTxData),
                           [image |-> formData.image])
         newRequests ==
           CASE editsRequest /\ editingTransaction._pendingAction = "add" ->
                  updateRequest(requests, editingTransaction._requestId,
                                payload(newTxData),
                                AddDescription(formData, event.name), clock).requests
             [] editsRequest /\ editingTransaction._pendingAction = "update" ->
                  updateRequest(requests, editingTransaction._requestId,
                                payload(Spread(newTxData, [id |-> originalId])),
                                UpdateDescription(formData, event.name), clock).requests
             [] ~editsRequest /\ editingTransaction # NoEditing /\ role = "assistant" ->
                  createRequest(requests, events, "update_transaction", payload(updated),
                                UpdateDescription(formData, event.name),
                                Username(role), clock).requests
             [] ~editsRequest /\ editingTransaction = NoEditing /\ role = "assistant" ->
                  createRequest(requests, events, "add_transaction", payload(newTxData),
                                AddDescription(formData, event.name),
                                Username(role), clock).requests
             [] OTHER -> requests
         newEvents ==
           CASE ~editsRequest /\ editingTransaction # NoEditing /\ role # "assistant" ->
                  updateTransaction(events, event.id, updated).events
             [] ~editsRequest /\ editingTransaction = NoEditing /\ role # "assistant" ->
                  addTransaction(events, event.id, newTxData, clock).events
             [] OTHER -> events
         ticks == editsRequest \/ editingTransaction = NoEditing \/ role = "assistant"
     IN /\ ticks => clock <= MaxClock
        /\ Len(newRequests) <= MaxRequests
        /\ \A i \in DOMAIN newEvents : Len(newEvents[i].transactions) <= MaxTransactions
        /\ events' = newEvents
        /\ requests' = newRequests
        /\ clock' = IF ticks THEN clock + 1 ELSE clock
        /\ ReloadPage(newEvents, newRequests, id)
  /\ Forget(role, id' # 0)
  /\ UNCHANGED <<approveVars, resolved>>
  /\ UNCHANGED <<connectionVars, sessionVars>>

(***************************************************************************)
(* EventDetail: confirmDeleteTransaction, handleRejectTransaction.         *)
(***************************************************************************)
DeleteDescription(tx, eventName) == <<"Delete Transaction", tx.name, eventName>>

confirmDeleteTransaction(role, transactionToDelete) ==
  /\ Idle
  /\ event # NoEvent
  /\ ShowsDelete(role, transactionToDelete)
  /\ \E destroys \in DestroyOutcomes(Releases(events, event.id, transactionToDelete.id)) :
     LET cancels == transactionToDelete._isPending /\ transactionToDelete._requestId # 0
         newRequests ==
           IF cancels THEN deleteRequest(requests, transactionToDelete._requestId).requests
           ELSE IF role = "assistant"
           THEN createRequest(requests, events, "delete_transaction",
                              [eventId |-> event.id, eventName |-> event.name,
                               transactionId |-> transactionToDelete.id,
                               transactionName |-> transactionToDelete.name],
                              DeleteDescription(transactionToDelete, event.name),
                              Username(role), clock).requests
           ELSE requests
         newEvents ==
           IF ~cancels /\ role # "assistant"
           THEN deleteTransaction(events, event.id, transactionToDelete.id, destroys).events
           ELSE events
         creates == ~cancels /\ role = "assistant"
     IN /\ creates => clock <= MaxClock
        /\ Len(newRequests) <= MaxRequests
        /\ events' = newEvents
        /\ requests' = newRequests
        /\ clock' = IF creates THEN clock + 1 ELSE clock
        /\ ReloadPage(newEvents, newRequests, id)
        /\ IF cancels THEN Resolve(role, transactionToDelete._requestId, "cancel", id' # 0)
           ELSE Forget(role, id' # 0) /\ UNCHANGED resolved
  /\ UNCHANGED approveVars
  /\ UNCHANGED <<connectionVars, sessionVars>>

handleRejectTransaction(role, tx) ==
  /\ Idle
  /\ ShowsApprove(role, tx)
  /\ tx._requestId # 0
  /\ requests' = deleteRequest(requests, tx._requestId).requests
  /\ ReloadPage(events, requests', id)
  /\ Resolve(role, tx._requestId, "reject", id' # 0)
  /\ UNCHANGED <<events, clock, approveVars>>
  /\ UNCHANGED <<connectionVars, sessionVars>>

(***************************************************************************)
(* EventDetail: handleDeleteEvent; settings: restore and permanent delete. *)
(***************************************************************************)
handleDeleteEvent(role) ==
  /\ Idle
  /\ event # NoEvent
  /\ CanManage(role)
  /\ IF role = "assistant"
     THEN /\ clock <= MaxClock
          /\ Len(requests) < MaxRequests
          /\ requests' = createRequest(requests, events, "delete_event",
                                       [eventId |-> event.id, eventName |-> event.name],
                                       <<"Delete Event", event.name>>,
                                       Username(role), clock).requests
          /\ clock' = clock + 1
          /\ UNCHANGED events
     ELSE /\ events' = deleteEvent(events, event.id).events
          /\ UNCHANGED <<requests, clock>>
  /\ LeavePage
  /\ Forget(role, FALSE)
  /\ UNCHANGED <<approveVars, resolved>>
  /\ UNCHANGED <<connectionVars, sessionVars>>

\* Settings modal (admin): the recycle bin lists the soft-deleted events.
handleRestore(role, eid) ==
  /\ Idle
  /\ eid \in {e.id : e \in loadSettingsData(events, role)}
  /\ events' = restoreEvent(events, eid).events
  /\ Forget(role, FALSE)
  /\ UNCHANGED <<requests, clock, pageVars, approveVars, resolved>>
  /\ UNCHANGED <<connectionVars, sessionVars>>

executePermanentDelete(role, recycleDeleteId, destroys) ==
  /\ Idle
  /\ recycleDeleteId \in {e.id : e \in loadSettingsData(events, role)}
  /\ events' = permanentlyDeleteEvent(events, recycleDeleteId, destroys).events
  /\ Forget(role, FALSE)
  /\ UNCHANGED <<requests, clock, pageVars, approveVars, resolved>>
  /\ UNCHANGED <<connectionVars, sessionVars>>

(***************************************************************************)
(* Dashboard: handleCreateEvent, handleRejectRequest.                      *)
(***************************************************************************)
\* getEvents(): the events that are not soft-deleted.
getEvents(evs) == LET Live(e) == ~e.isDeleted IN Filter(evs, Live)

handleCreateEvent(role, newEventName) ==
  /\ Idle
  /\ CanManage(role)
  /\ \A e \in Range(getEvents(events)) : e.name # newEventName
  /\ role = "assistant" =>
       \A r \in loadRequests(requests, role) :
          ~(r.type = "create_event" /\ r.data.name = newEventName)
  /\ clock <= MaxClock
  /\ IF role = "assistant"
     THEN /\ Len(requests) < MaxRequests
          /\ requests' = createRequest(requests, events, "create_event",
                                       [name |-> newEventName],
                                       <<"Create Event", newEventName>>,
                                       Username(role), clock).requests
          /\ UNCHANGED events
     ELSE /\ Len(events) < MaxEvents
          /\ events' = createEvent(events, newEventName, clock).events
          /\ UNCHANGED requests
  /\ clock' = clock + 1
  /\ Forget(role, FALSE)
  /\ UNCHANGED <<id, event, displayTransactions, approveVars, resolved>>
  /\ UNCHANGED <<connectionVars, sessionVars>>

\* Dashboard.handleSaveTransaction: the edit of a transaction of the events
\* list.  The list holds the committed transactions; pending requests are
\* not consulted.
dashboardHandleSaveTransaction(role, selectedEventId, editingTransaction, formData) ==
  /\ Idle
  /\ CanManage(role)
  /\ LET newTxData == formData
         updated == Spread(editingTransaction, newTxData)
         eventName == GetEvent(getEvents(events), selectedEventId).name
     IN IF role = "assistant"
        THEN /\ requests' = createRequest(requests, events, "update_transaction",
                                          [eventId |-> selectedEventId, eventName |-> eventName,
                                           transaction |-> updated],
                                          UpdateDescription(formData, eventName),
                                          Username(role), clock).requests
             /\ clock' = clock + 1
             /\ UNCHANGED events
        ELSE /\ events' = updateTransaction(events, selectedEventId, updated).events
             /\ UNCHANGED <<requests, clock>>
  /\ Forget(role, FALSE)
  /\ UNCHANGED <<pageVars, approveVars, resolved>>
  /\ UNCHANGED <<connectionVars, sessionVars>>

\* Dashboard.handleConfirmDelete
handleConfirmDelete(role, selectedEventId, transactionToDelete) ==
  /\ Idle
  /\ CanManage(role)
  /\ \E destroys \in DestroyOutcomes(Releases(events, selectedEventId,
                                                transactionToDelete.id)) :
     LET eventName == GetEvent(getEvents(events), selectedEventId).name
     IN IF role = "assistant"
        THEN /\ requests' = createRequest(requests, events, "delete_transaction",
                                          [eventId |-> selectedEventId, eventName |-> eventName,
                                           transactionId |-> transactionToDelete.id,
                                           transactionName |-> transactionToDelete.name],
                                          DeleteDescription(transactionToDelete, eventName),
                                          Username(role), clock).requests
             /\ clock' = clock + 1
             /\ UNCHANGED events
        ELSE /\ events' = deleteTransaction(events, selectedEventId,
                                           transactionToDelete.id, destroys).events
             /\ UNCHANGED <<requests, clock>>
  /\ Forget(role, FALSE)
  /\ UNCHANGED <<pageVars, approveVars, resolved>>
  /\ UNCHANGED <<connectionVars, sessionVars>>

\* Dashboard.handleRejectRequest: the request is deleted; the list it is
\* dropped from is display state.  The admin rejects a request of the list,
\* the assistant cancels one of its own.
handleRejectRequest(role, rid) ==
  /\ Idle
  /\ rid \in {r.id : r \in loadRequests(requests, role)}
  /\ requests' = deleteRequest(requests, rid).requests
  /\ Resolve(role, rid, "reject", FALSE)
  /\ UNCHANGED <<events, clock, id, event, displayTransactions, approveVars>>
  /\ UNCHANGED <<connectionVars, sessionVars>>

(***************************************************************************)
(* Approval: approveRequest and the handlers that await it.                *)
(***************************************************************************)
\* Variant: the event is loaded again without waiting for approveRequest, so
\* the load reads the queue as it was.
AfterApproveStale(caller, evs, reqs) ==
  IF caller = "handleApproveTransaction"
  THEN ReloadPage(evs, requests, id)
  ELSE UNCHANGED <<id, event, displayTransactions>>

\* What the awaiting handler does once approveRequest has returned: the
\* handler of the EventDetail page loads the event again.
AfterApprove(caller, evs, reqs) ==
  IF caller = "handleApproveTransaction"
  THEN ReloadPage(evs, reqs, id)
  ELSE UNCHANGED <<id, event, displayTransactions>>

\* History: the log of a call of approveRequest(req) that starts now.
StartLog(role, req) ==
  [op |-> "approve", by |-> role, req |-> req, effect |-> "none", removed |-> FALSE,
   ended |-> "no", loaded |-> FALSE,
   again |-> IF last.op = "approve" /\ last.req = req
             THEN IF last.ended = "returned" THEN "completed"
                  ELSE IF last.effect \in {"ok", "notfound"} THEN "interrupted"
                  ELSE "no"
             ELSE "no"]

\* The n-th call that approveRequest(req) makes, awaited by handler caller.
\* ok = FALSE: the call fails at the store (the server answers 500, nothing
\* is written).
ApproveCall(req, caller, n, ok, log) ==
  \E destroys \in DestroyOutcomes(/\ approveRequestSteps[n] = "effect"
                                  /\ req.type = "delete_transaction"
                                  /\ Releases(events, req.data.eventId,
                                              req.data.transactionId)) :
  LET step == approveRequestSteps[n]
      eff == approveEffect(events, req, clock, destroys)
      stepOk == ok /\ (step = "effect" => approveRequestAbsorbs(eff.status))
      newEvents == IF step = "effect" /\ stepOk THEN eff.events ELSE events
      removes == step = "delete" /\ stepOk /\ FindIndex(requests, req.id) # 0
      newRequests == IF step = "delete" /\ stepOk
                     THEN deleteRequest(requests, req.id).requests ELSE requests
      generates == step = "effect" /\ stepOk /\ eff.generated /\ eff.status = 200
      next == IF stepOk THEN n + 1 ELSE approveRequestOnError(n)
      returns == next > Len(approveRequestSteps)
      ends == returns \/ next = 0
  IN /\ generates => clock <= MaxClock
     /\ Len(newEvents) <= MaxEvents
     /\ \A i \in DOMAIN newEvents : Len(newEvents[i].transactions) <= MaxTransactions
     /\ events' = newEvents
     /\ requests' = newRequests
     /\ clock' = IF generates THEN clock + 1 ELSE clock
     /\ resolved' = IF removes THEN resolved \cup {req.id} ELSE resolved
     /\ approveStep' = IF ends THEN 0 ELSE next
     /\ approveReq' = IF ends THEN NoRequest ELSE req
     /\ approveCaller' = IF ends THEN "none" ELSE caller
     /\ IF returns THEN AfterApprove(caller, newEvents, newRequests)
        ELSE UNCHANGED pageVars
     /\ last' =
          [log EXCEPT
             !.effect = IF step # "effect" THEN @
                        ELSE IF ~ok THEN "unavailable"
                        ELSE IF ~stepOk THEN "failed"
                        ELSE IF eff.status = 404 THEN "notfound" ELSE "ok",
             !.removed = @ \/ removes,
             !.ended = IF returns THEN "returned" ELSE IF ends THEN "threw" ELSE "no",
             !.loaded = returns /\ caller = "handleApproveTransaction" /\ id' # 0]
     /\ UNCHANGED <<connectionVars, sessionVars>>

\* Dashboard.handleApproveRequest, up to the first call of approveRequest.
handleApproveRequest(role, req, ok) ==
  /\ Idle
  /\ role = "admin"
  /\ req \in loadRequests(requests, role)
  /\ ApproveCall(req, "handleApproveRequest", 1, ok, StartLog(role, req))

\* EventDetail.handleApproveTransaction, up to the first call of approveRequest.
handleApproveTransaction(role, tx, ok) ==
  /\ Idle
  /\ ShowsApprove(role, tx)
  /\ tx._fullRequest # NoRequest
  /\ ApproveCall(tx._fullRequest, "handleApproveTransaction", 1, ok, StartLog(role, tx._fullRequest))

\* approveRequest: its calls after the first, and the rest of the handler.
approveRequest(ok) ==
  /\ approveStep \in 2..Len(approveRequestSteps)
  /\ ApproveCall(approveReq, approveCaller, approveStep, ok, last)

(***************************************************************************)
(* Specification.                                                          *)
(***************************************************************************)
Rows == {NoEditing} \cup Range(displayTransactions)

Next ==
  \/ \E eid \in {e.id : e \in Range(events)} \cup {id} : useEffectLoadEvent(eid)
  \/ \E role \in Roles, formData \in Forms, tx \in Rows :
       handleSaveTransaction(role, formData, tx)
  \/ \E role \in Roles, tx \in Range(displayTransactions) :
       confirmDeleteTransaction(role, tx)
  \/ \E role \in Roles, tx \in Range(displayTransactions) : handleRejectTransaction(role, tx)
  \/ \E role \in Roles : handleDeleteEvent(role)
  \/ \E role \in Roles, eid \in {e.id : e \in Range(events)} : handleRestore(role, eid)
  \/ \E role \in Roles, eid \in {e.id : e \in Range(events)} :
       \E destroys \in DestroyOutcomes(HeldBy(events, eid) # {}) :
          executePermanentDelete(role, eid, destroys)
  \/ \E role \in Roles, name \in EventNames : handleCreateEvent(role, name)
  \/ \E role \in Roles, e \in Range(getEvents(events)), formData \in Forms :
       \E tx \in Range(e.transactions) :
          /\ role = "assistant" => clock <= MaxClock /\ Len(requests) < MaxRequests
          /\ dashboardHandleSaveTransaction(role, e.id, tx, formData)
  \/ \E role \in Roles, e \in Range(getEvents(events)) :
       \E tx \in Range(e.transactions) :
          /\ role = "assistant" => clock <= MaxClock /\ Len(requests) < MaxRequests
          /\ handleConfirmDelete(role, e.id, tx)
  \/ \E role \in Roles, rid \in {r.id : r \in Range(requests)} :
       handleRejectRequest(role, rid)
  \/ \E role \in Roles, req \in Range(requests), ok \in BOOLEAN :
       handleApproveRequest(role, req, ok)
  \/ \E role \in Roles, tx \in Range(displayTransactions), ok \in BOOLEAN :
       handleApproveTransaction(role, tx, ok)
  \/ \E ok \in BOOLEAN : approveRequest(ok)

Spec == Init /\ [][Next]_vars

(***************************************************************************)
(* The overlay merge on its own: a store holding one event with committed  *)
(* transactions, the assistant submitting requests from the Dashboard, and *)
(* the event page loading.                                                 *)
(***************************************************************************)
MergeMaxTransactions == 2   \* committed transactions of the event
MergeMaxRequests == 2       \* requests submitted

\* The store after the admin has created an event and added the
\* transactions of forms to it, ids in order of creation.
RECURSIVE Seeded(_, _, _)
Seeded(evs, forms, newId) ==
  IF forms = <<>> THEN evs
  ELSE Seeded(addTransaction(evs, 1, Head(forms), newId).events, Tail(forms), newId + 1)

InitMerge ==
  /\ \E n \in 1..MergeMaxTransactions : \E forms \in [1..n -> Forms] :
       /\ events = Seeded(createEvent(<<>>, "Gala", 1).events, forms, 2)
       /\ clock = n + 2
  /\ requests = <<>>
  /\ id = 0
  /\ event = NoEvent
  /\ displayTransactions = <<>>
  /\ approveStep = 0
  /\ approveReq = NoRequest
  /\ approveCaller = "none"
  /\ last = NoLast
  /\ resolved = {}
  /\ isDbConnected = TRUE
  /\ inflight = {}
  /\ user = NoUser
  /\ testingMode = FALSE
  /\ auth = seedAuth

NextMerge ==
  \/ \E e \in Range(getEvents(events)), formData \in Forms :
       \E tx \in Range(e.transactions) :
          /\ Len(requests) < MergeMaxRequests
          /\ dashboardHandleSaveTransaction("assistant", e.id, tx, formData)
  \/ \E e \in Range(getEvents(events)) :
       \E tx \in Range(e.transactions) :
          /\ Len(requests) < MergeMaxRequests
          /\ handleConfirmDelete("assistant", e.id, tx)
  \/ \E e \in Range(events) : useEffectLoadEvent(e.id)

SpecMerge == InitMerge /\ [][NextMerge]_vars

(***************************************************************************)
(* The server on its own: the API behind the middleware, called by the     *)
(* clients of any number of sessions.  Ids are minted by the clients.      *)
(***************************************************************************)
ApiMaxClock == 2   \* ids the clients mint

\* getUnreadRequestCount(): the requests that are not read.
getUnreadRequestCount(reqs) == Cardinality({i \in DOMAIN reqs : ~reqs[i].isRead})

\* The answer to the last call: the status, and the public ids whose
\* destroy the handler asked Cloudinary for.
Answer(op, status, destroy) == [status |-> status, destroy |-> destroy]

\* One call of the API: the middleware, then the handler when it calls
\* next().  result: what the handler answers and leaves in the collections.
ApiCall(connects, op, result) ==
  LET gate == checkDbConnection(isDbConnected, connects)
      done == Spread([events |-> events, requests |-> requests, destroy |-> {}], result)
  IN /\ isDbConnected' = gate.isDbConnected
     /\ IF gate.next
        THEN /\ events' = done.events
             /\ requests' = done.requests
             /\ last' = Answer(op, done.status, done.destroy)
        ELSE /\ UNCHANGED <<events, requests>>
             /\ last' = Answer(op, 503, {})
     /\ UNCHANGED <<pageVars, approveVars, resolved, sessionVars>>

\* mongoose.connection.on('disconnected') and on('reconnected')
Disconnected ==
  /\ isDbConnected
  /\ isDbConnected' = FALSE
  /\ UNCHANGED <<serverVars, pageVars, approveVars, historyVars, inflight, sessionVars>>

Reconnected ==
  /\ ~isDbConnected
  /\ isDbConnected' = TRUE
  /\ UNCHANGED <<serverVars, pageVars, approveVars, historyVars, inflight, sessionVars>>

ApiGetEvents(connects) ==
  /\ ApiCall(connects, "GET /api/events", [status |-> 200])
  /\ UNCHANGED <<clock, inflight>>

ApiPostEvents(connects, name) ==
  /\ clock <= ApiMaxClock
  /\ ApiCall(connects, "POST /api/events", createEvent(events, name, clock))
  /\ clock' = clock + 1
  /\ UNCHANGED inflight

ApiPutEventDelete(connects, eid) ==
  /\ ApiCall(connects, "PUT /api/events/:id/delete", deleteEvent(events, eid))
  /\ UNCHANGED <<clock, inflight>>

ApiPutEventRestore(connects, eid) ==
  /\ ApiCall(connects, "PUT /api/events/:id/restore", restoreEvent(events, eid))
  /\ UNCHANGED <<clock, inflight>>

ApiDeleteEvent(connects, eid, destroys) ==
  /\ ApiCall(connects, "DELETE /api/events/:id", permanentlyDeleteEvent(events, eid, destroys))
  /\ UNCHANGED <<clock, inflight>>

ApiPostEventTransactions(connects, eid, fields) ==
  /\ clock <= ApiMaxClock
  /\ ApiCall(connects, "POST /api/events/:id/transactions",
             addTransaction(events, eid, fields, clock))
  /\ clock' = clock + 1
  /\ UNCHANGED inflight

ApiPutEventTransaction(connects, eid, tx) ==
  /\ ApiCall(connects, "PUT /api/events/:id/transactions/:txId",
             updateTransaction(events, eid, tx))
  /\ UNCHANGED <<clock, inflight>>

ApiDeleteEventTransaction(connects, eid, txId, destroys) ==
  /\ ApiCall(connects, "DELETE /api/events/:id/transactions/:txId",
             deleteTransaction(events, eid, txId, destroys))
  /\ UNCHANGED <<clock, inflight>>

\* The body createRequest sends.
createRequestBody(type, data, description, requestedBy, now) ==
  [id |-> now, type |-> type, data |-> data, description |-> description,
   timestamp |-> now, requestedBy |-> requestedBy, isRead |-> FALSE]

\* app.post('/api/requests'), first half: the middleware and the lookup of
\* the original transaction; the handler then awaits Request.create.
ApiPostRequests(connects, type, data) ==
  LET gate == checkDbConnection(isDbConnected, connects)
      body == createRequestBody(type, data, <<type>>, Username("assistant"), clock)
  IN /\ clock <= ApiMaxClock
     /\ isDbConnected' = gate.isDbConnected
     /\ clock' = clock + 1
     /\ IF gate.next
        THEN /\ inflight' = inflight \cup {PostRequestsData(events, body)}
             /\ UNCHANGED last
        ELSE /\ UNCHANGED inflight
             /\ last' = Answer("POST /api/requests", 503, {})
     /\ UNCHANGED <<events, requests, pageVars, approveVars, resolved, sessionVars>>

\* app.post('/api/requests'), second half: Request.create and the answer.
\* When the connection was lost after the middleware, mongoose keeps the
\* operation until the connection is back or rejects it: the catch answers
\* 500 and nothing is inserted.
ApiPostRequestsCreate(requestData) ==
  /\ requestData \in inflight
  /\ inflight' = inflight \ {requestData}
  /\ LET done == IF isDbConnected THEN RequestCreate(requests, requestData)
                 ELSE [status |-> 500, requests |-> requests]
     IN /\ requests' = done.requests
        /\ last' = Answer("POST /api/requests", done.status, {})
  /\ UNCHANGED <<events, clock, pageVars, approveVars, resolved, isDbConnected, sessionVars>>

ApiPutRequest(connects, rid, body) ==
  /\ ApiCall(connects, "PUT /api/requests/:id", PutRequest(requests, rid, body))
  /\ UNCHANGED <<clock, inflight>>

ApiDeleteRequest(connects, rid) ==
  /\ ApiCall(connects, "DELETE /api/requests/:id", deleteRequest(requests, rid))
  /\ UNCHANGED <<clock, inflight>>

ApiPostRequestsMarkRead(connects) ==
  /\ ApiCall(connects, "POST /api/requests/mark-read", PostRequestsMarkRead(requests))
  /\ UNCHANGED <<clock, inflight>>

InitApi ==
  /\ events = <<>>
  /\ requests = <<>>
  /\ clock = 1
  /\ id = 0
  /\ event = NoEvent
  /\ displayTransactions = <<>>
  /\ approveStep = 0
  /\ approveReq = NoRequest
  /\ approveCaller = "none"
  /\ last = Answer("listen", 0, {})
  /\ resolved = {}
  /\ isDbConnected = FALSE
  /\ inflight = {}
  /\ user = NoUser
  /\ testingMode = FALSE
  /\ auth = seedAuth

\* The ids a client can name: those of the documents, and one of none.
EventIds == {e.id : e \in Range(events)} \cup {0}

TransactionsOf(eid) == IF FindEvent(events, eid) = 0 THEN {} ELSE Range(GetEvent(events, eid).transactions)

RequestIds == {r.id : r \in Range(requests)} \cup {0}

\* The payloads of the requests a client submits for event eid; the event
\* may be gone by the time the request arrives.
RequestPayloads(eid) ==
  {<<"add_transaction",
     [eventId |-> eid, eventName |-> "Gala", transaction |-> FormTickets]>>}
  \cup {<<"update_transaction",
          [eventId |-> eid, eventName |-> "Gala", transaction |-> Spread(t, FormTickets)]>> :
          t \in TransactionsOf(eid)}

\* The bodies of PUT /api/requests/:id: the one updateRequest sends for a new
\* payload, and bodies that name other paths of the document.
PutRequestBodies(now) ==
  {[data |-> [eventId |-> 1, eventName |-> "Gala", transaction |-> FormHall],
    description |-> <<"edited">>, timestamp |-> now, isRead |-> FALSE],
   [type |-> "delete_event", requestedBy |-> "admin"]}

NextApi ==
  \/ Disconnected
  \/ Reconnected
  \/ \E connects \in BOOLEAN : ApiGetEvents(connects)
  \/ \E connects \in BOOLEAN, name \in EventNames : ApiPostEvents(connects, name)
  \/ \E connects \in BOOLEAN, eid \in EventIds : ApiPutEventDelete(connects, eid)
  \/ \E connects \in BOOLEAN, eid \in EventIds : ApiPutEventRestore(connects, eid)
  \/ \E connects \in BOOLEAN, eid \in EventIds, destroys \in BOOLEAN :
       ApiDeleteEvent(connects, eid, destroys)
  \/ \E connects \in BOOLEAN, eid \in EventIds, fields \in Forms :
       ApiPostEventTransactions(connects, eid, fields)
  \/ \E connects \in BOOLEAN, eid \in EventIds, fields \in Forms :
       \E t \in TransactionsOf(eid) \cup {NoTx} :
          ApiPutEventTransaction(connects, eid, Spread(t, fields))
  \/ \E connects \in BOOLEAN, eid \in EventIds, destroys \in BOOLEAN :
       \E t \in TransactionsOf(eid) \cup {NoTx} :
          ApiDeleteEventTransaction(connects, eid, t.id, destroys)
  \/ \E connects \in BOOLEAN, eid \in EventIds :
       \E p \in RequestPayloads(eid) : ApiPostRequests(connects, p[1], p[2])
  \/ \E requestData \in inflight : ApiPostRequestsCreate(requestData)
  \/ \E connects \in BOOLEAN, rid \in RequestIds, body \in PutRequestBodies(clock) :
       ApiPutRequest(connects, rid, body)
  \/ \E connects \in BOOLEAN, rid \in RequestIds : ApiDeleteRequest(connects, rid)
  \/ \E connects \in BOOLEAN : ApiPostRequestsMarkRead(connects)

SpecApi == InitApi /\ [][NextApi]_vars

(***************************************************************************)
(* Properties.                                                             *)
(***************************************************************************)
\* The first call of an approval of a request of type kind has applied
\* the effect in this step.
EffectApplied(kind) ==
  /\ approveStep = 0
  /\ last'.op = "approve"
  /\ last'.req.type = kind
  /\ last'.effect = "ok"

\* The approval of a request of type kind returns in this step, after its
\* last call.
ApprovalReturns(kind) ==
  /\ approveStep # 0
  /\ last'.op = "approve"
  /\ last'.req.type = kind
  /\ last'.ended = "returned"

\* The queue reqs without the request rid, everything else in place.
Without(reqs, rid) == LET Other(r) == r.id # rid IN Filter(reqs, Other)

\* The target of request r is not in the store evs.
TargetMissing(evs, r) ==
  CASE r.type = "add_transaction" -> FindEvent(evs, r.data.eventId) = 0
    [] r.type = "delete_event" -> FindEvent(evs, r.data.eventId) = 0
    [] r.type = "update_transaction" ->
         \/ FindEvent(evs, r.data.eventId) = 0
         \/ FindIndex(GetEvent(evs, r.data.eventId).transactions, r.data.transaction.id) = 0
    [] r.type = "delete_transaction" ->
         \/ FindEvent(evs, r.data.eventId) = 0
         \/ FindIndex(GetEvent(evs, r.data.eventId).transactions, r.data.transactionId) = 0
    [] OTHER -> FALSE

C2_ApproveUpdateTransaction ==
  [][/\ EffectApplied("update_transaction") =>
          LET r == last'.req
              i == FindEvent(events, r.data.eventId)
              idx == FindIndex(events[i].transactions, r.data.transaction.id)
          IN /\ i # 0
             /\ idx # 0 =>
                  events' = [events EXCEPT ![i].transactions[idx] = r.data.transaction]
             /\ requests' = requests
     /\ (last'.op = "approve" /\ last'.req.type = "update_transaction"
           /\ last'.again = "completed") =>
          /\ events' = events
          /\ requests' = requests]_vars

\* An update_transaction request was approved twice in a row: the second
\* approval, of the request already gone from the queue, applied its effect
\* to the transaction, which exists, and returned.
C2_Witness ==
  /\ last.op = "approve"
  /\ last.req.type = "update_transaction"
  /\ last.again = "completed"
  /\ last.effect = "ok"
  /\ last.ended = "returned"
  /\ ~TargetMissing(events, last.req)
  /\ \E t \in Range(GetEvent(events, last.req.data.eventId).transactions) :
        t = last.req.data.transaction /\ t # last.req.data.originalTransaction

C4_EffectBeforeDelete ==
  (last.op = "approve" /\ last.removed) => last.effect \in {"ok", "notfound"}

\* An approval has applied its effect and then removed the request.
C4_Witness ==
  /\ last.op = "approve"
  /\ last.removed
  /\ last.effect = "ok"
  /\ last.req.type = "delete_transaction"
  /\ FindIndex(requests, last.req.id) = 0

\* C5: when the effect call of an approval fails at the store, the approval
\* makes no further call: the queue is left as it was, the request with its
\* payload included.
C5_FailedEffectKeepsRequest ==
  [][(last'.op = "approve" /\ last'.effect = "unavailable") =>
        /\ requests' = requests
        /\ last'.req \in Range(requests) => last'.req \in Range(requests')
        /\ last'.ended = "threw"
        /\ ~last'.removed]_vars

\* The effect call of the approval of a pending request has failed at the
\* store, and the request is in the queue.
C5_Witness ==
  /\ last.op = "approve"
  /\ last.effect = "unavailable"
  /\ last.ended = "threw"
  /\ last.req \in Range(requests)

\* The first call of an approval that repeats the approval before it, which
\* was interrupted after its effect and before the delete, goes through.
RetryEffect ==
  /\ approveStep = 0
  /\ last'.op = "approve"
  /\ last'.again = "interrupted"
  /\ last'.effect \in {"ok", "notfound"}

\* C6 as stated: for every kind of request, approving the still-pending
\* request again after an interruption between effect and delete leaves the
\* store as the one approval left it.
C6_RetrySafeForEveryKind ==
  [][RetryEffect => events' = events]_vars

\* C6, what the retry does by kind: it leaves the store as it was for
\* delete_event, update_transaction and delete_transaction; for
\* add_transaction on an existing event it appends one more transaction,
\* and for create_event one more event.
C6_RetrySafeForSetKinds ==
  [][RetryEffect =>
        LET r == last'.req
        IN CASE r.type \in {"delete_event", "update_transaction", "delete_transaction"} ->
                  events' = events
             [] r.type = "add_transaction" ->
                  LET i == FindEvent(events, r.data.eventId)
                  IN IF i = 0 THEN events' = events
                     ELSE /\ Len(events'[i].transactions) = Len(events[i].transactions) + 1
                          /\ SubSeq(events'[i].transactions, 1, Len(events[i].transactions))
                               = events[i].transactions
             [] r.type = "create_event" ->
                  /\ Len(events') = Len(events) + 1
                  /\ SubSeq(events', 1, Len(events)) = events]_vars

\* The approval of a create_event request was interrupted between effect
\* and delete and has been repeated: the store holds two events of the
\* requested name.
C6_Witness ==
  /\ last.op = "approve"
  /\ last.again = "interrupted"
  /\ last.req.type = "create_event"
  /\ last.effect = "ok"
  /\ Cardinality({i \in DOMAIN events : events[i].name = last.req.data.name}) = 2

\* C7: an approval of a request whose target is gone from the store does
\* not fail for that: unless the store itself fails, the effect call leaves
\* the store unchanged and the approval goes on to the delete; when it
\* returns the store is still unchanged and the request is out of the queue.
C7_VanishedTargetAbsorbed ==
  [][/\ (approveStep = 0 /\ last'.op = "approve" /\ last'.effect # "unavailable"
           /\ TargetMissing(events, last'.req)) =>
          /\ last'.effect \in {"ok", "notfound"}
          /\ last'.ended = "no"
          /\ events' = events
     /\ (approveStep # 0 /\ last'.op = "approve" /\ last'.ended = "returned"
           /\ TargetMissing(events, last'.req)) =>
          /\ events' = events
          /\ FindIndex(requests', last'.req.id) = 0]_vars

\* An update_transaction request whose transaction had been removed from
\* its event has been approved: the approval returned and removed the
\* request.
C7_Witness ==
  /\ last.op = "approve"
  /\ last.req.type = "update_transaction"
  /\ last.ended = "returned"
  /\ last.removed
  /\ FindEvent(events, last.req.data.eventId) # 0
  /\ TargetMissing(events, last.req)

\* C8 as stated: the merge leaves the event it is given unchanged: the
\* transaction records of the event of the page are as they were fetched,
\* none carries an overlay property.
C8_MergeLeavesEventUnchanged ==
  event # NoEvent =>
    \A i \in DOMAIN event.transactions :
       event.transactions[i] = FetchedTransaction(CastTransaction(event.transactions[i]))

\* The page has loaded an event while a request for one of its committed
\* transactions is pending: the transaction record of the event of the page
\* carries the overlay of the request.
C8_Witness ==
  /\ event # NoEvent
  /\ \E i \in DOMAIN event.transactions :
        /\ event.transactions[i]._isPending
        /\ event.transactions[i]._pendingAction \in {"update", "delete"}
        /\ event.transactions[i]._fullRequest \in Range(requests)

\* The requests of fetched that target transaction txId of event eid, as
\* indices into the requests of the event in the order returned.
Hits(fetched, eid, txId) ==
  LET mine == getPendingRequestsByEvent(fetched, eid)
  IN {j \in DOMAIN mine :
        \/ mine[j].type = "update_transaction" /\ mine[j].data.transaction.id = txId
        \/ mine[j].type = "delete_transaction" /\ mine[j].data.transactionId = txId}

Max(S) == CHOOSE x \in S : \A y \in S : y <= x

PendingActionOf(r) == IF r.type = "update_transaction" THEN "update" ELSE "delete"

\* The merged view displayed is the one computed from the store and the
\* queue as they are, with the queue returned in the order of fetched.
ViewOf(fetched) ==
  /\ id # 0
  /\ GetEvent(events, id) # NoEvent
  /\ displayTransactions = loadEvent(events, fetched, id).displayTransactions

\* C9 as stated: when two pending requests submitted at t1 < t2 target the
\* same transaction, the merged view shows for it the overlay of the
\* request submitted at t2, whatever the order the queue is returned in.
C9_LatestSubmittedWins ==
  \A fetched \in GetRequests(requests) :
     ViewOf(fetched) =>
       \A i \in DOMAIN GetEvent(events, id).transactions :
          LET row == displayTransactions[i]
              mine == getPendingRequestsByEvent(fetched, id)
              hits == Hits(fetched, id, row.id)
          IN \A j1 \in hits, j2 \in hits :
                mine[j1].timestamp < mine[j2].timestamp =>
                  /\ row._requestId = mine[j2].id
                  /\ row._pendingAction = PendingActionOf(mine[j2])
                  /\ row._fullRequest = mine[j2]

\* C9, what the merge does: the merged view shows for a transaction that
\* pending requests target the request reference and pending action of the
\* request the queue returned last among them, and the pending data of the
\* update request it returned last among them.
C9_LastReturnedWins ==
  \A fetched \in GetRequests(requests) :
     ViewOf(fetched) =>
       \A i \in DOMAIN GetEvent(events, id).transactions :
          LET row == displayTransactions[i]
              mine == getPendingRequestsByEvent(fetched, id)
              hits == Hits(fetched, id, row.id)
              updates == {j \in hits : mine[j].type = "update_transaction"}
          IN hits # {} =>
               /\ row._isPending
               /\ row._requestId = mine[Max(hits)].id
               /\ row._pendingAction = PendingActionOf(mine[Max(hits)])
               /\ row._fullRequest = mine[Max(hits)]
               /\ row._pendingData = IF updates = {} THEN NoTx
                                     ELSE mine[Max(updates)].data.transaction

\* Two pending requests target the same transaction and the merged view,
\* computed from the queue as it is, shows the one submitted first.
C9_Witness ==
  \E fetched \in GetRequests(requests) :
     /\ ViewOf(fetched)
     /\ \E i \in DOMAIN GetEvent(events, id).transactions :
          \E r1 \in Range(requests), r2 \in Range(requests) :
             /\ r1.timestamp < r2.timestamp
             /\ Hits(<<r1>>, id, displayTransactions[i].id) # {}
             /\ Hits(<<r2>>, id, displayTransactions[i].id) # {}
             /\ displayTransactions[i]._requestId = r1.id
             /\ displayTransactions[i]._fullRequest = r1

\* C10: a merged view computed after a request was approved, rejected or
\* cancelled has no entry that refers to the request: no row of the view,
\* synthetic or committed, carries its id.
C10_NoOverlayResidue ==
  last.loaded =>
    \A row \in Range(displayTransactions) \cup Range(event.transactions) :
       /\ row._requestId \notin resolved
       /\ row._fullRequest.id \notin resolved
       /\ row._isPending => row.id \notin resolved

\* The approval of a request from its row of the event page has returned
\* and the page shows the merged view loaded after it, with the approved
\* transaction in it.
C10_Witness ==
  /\ last.op = "approve"
  /\ last.ended = "returned"
  /\ last.removed
  /\ last.loaded
  /\ last.req.id \in resolved
  /\ displayTransactions # <<>>


\* The step is an edit of a still-pending request from the form of the
\* event page: handleSaveTransaction on a row the merge has flagged.
EditsPending ==
  \E role \in Roles, formData \in Forms, tx \in Range(displayTransactions) :
     /\ tx._isPending
     /\ tx._requestId # 0
     /\ handleSaveTransaction(role, formData, tx)

\* C11, the edits the event page makes: an edit of a pending request leaves
\* the queue with the same number of requests, every request keeps its id,
\* its type and its requestedBy, and the requests other than the edited one
\* are unchanged.
C11_EditPendingKeepsIdentity ==
  [][EditsPending =>
       /\ Len(requests') = Len(requests)
       /\ \A i \in DOMAIN requests :
             /\ requests'[i].id = requests[i].id
             /\ requests'[i].type = requests[i].type
             /\ requests'[i].requestedBy = requests[i].requestedBy
             /\ requests'[i] # requests[i] =>
                  \E tx \in Range(displayTransactions) :
                     tx._isPending /\ tx._requestId = requests[i].id]_vars

\* C11 as stated, at the API: whatever the edit of a pending request asks
\* for, the request keeps its kind and its requestedBy (an edit that would
\* change them is refused), and the queue keeps its length.
C11_EditRefusesKindAndRequester ==
  [][\A i \in DOMAIN requests, j \in DOMAIN requests' :
        requests[i].id = requests'[j].id =>
          /\ requests'[j].type = requests[i].type
          /\ requests'[j].requestedBy = requests[i].requestedBy]_vars

\* A pending request submitted by the assistant as add_transaction or
\* update_transaction is in the queue as a delete_event request of admin: a
\* PUT /api/requests/:id naming type and requestedBy has been applied.
C11_Witness ==
  \E i \in DOMAIN requests :
     /\ requests[i].type = "delete_event"
     /\ requests[i].requestedBy = "admin"

\* C12: no handler run by an assistant or by a viewer changes the committed
\* store, and none starts an approval: every step that changes the store or
\* calls approveRequest is a step of a handler run by the admin. What an
\* assistant's create, edit and delete handlers change is the queue.
C12_LimitedRolesLeaveStore ==
  [][(events' # events \/ last'.op = "approve") => last'.by = "admin"]_vars

\* The assistant has asked for a transaction to be added to an event, and
\* for the event to be created before that: the request is pending and the
\* event holds no transaction.
C12_Witness ==
  \E r \in Range(requests) :
     /\ r.requestedBy = Username("assistant")
     /\ r.type = "add_transaction"
     /\ GetEvent(events, r.data.eventId) # NoEvent
     /\ GetEvent(events, r.data.eventId).transactions = <<>>

\* C13: a mark-read call that is answered with success leaves no unread
\* request, and a submission that is then stored makes the unread count
\* exactly 1 (in general: one more than it was).
C13_MarkReadThenOneUnread ==
  [][/\ (\E connects \in BOOLEAN : ApiPostRequestsMarkRead(connects)) /\ last'.status = 200
        => getUnreadRequestCount(requests') = 0
     /\ (\E requestData \in inflight : ApiPostRequestsCreate(requestData))
        /\ last'.status = 200
        => /\ getUnreadRequestCount(requests') = getUnreadRequestCount(requests) + 1
           /\ getUnreadRequestCount(requests) = 0 => getUnreadRequestCount(requests') = 1
    ]_vars

\* A request was marked read, and the one submitted after it is the only
\* unread one.
C13_Witness ==
  /\ Len(requests) = 2
  /\ requests[1].isRead
  /\ ~requests[2].isRead
  /\ getUnreadRequestCount(requests) = 1
  /\ last.status = 200

\* The event eid is in the listing evs.
Lists(evs, eid) == \E e \in Range(evs) : e.id = eid

StatsMaxTransactions == 3   \* committed transactions of the first event

\* Filled-in forms of the three types.
StatsForms ==
  {[FormTickets EXCEPT !.type = "collection", !.amount = 1500],
   [FormTickets EXCEPT !.type = "collection", !.amount = 200],
   [FormHall EXCEPT !.type = "expense", !.amount = 400],
   [FormTickets EXCEPT !.type = "loan", !.amount = 200]}

\* txs.filter(t => t.type === type)
OfType(txs, type) == LET Is(t) == t.type = type IN Filter(txs, Is)

\* txs.reduce((a, t) => a + t.amount, 0)
RECURSIVE ReduceAmount(_, _)
ReduceAmount(txs, a) ==
  IF txs = <<>> THEN a ELSE ReduceAmount(Tail(txs), a + Head(txs).amount)

\* Variant: the loans are added to the balance.
EventDetailStatsLoanInBalance(rows) ==
  LET Committed(t) == ~t._isPending \/ t._pendingAction # "add"
      committedTx == Filter(rows, Committed)
      coll == ReduceAmount(OfType(committedTx, "collection"), 0)
      exp == ReduceAmount(OfType(committedTx, "expense"), 0)
      loan == ReduceAmount(OfType(committedTx, "loan"), 0)
  IN [coll |-> coll, exp |-> exp, loan |-> loan, bal |-> coll - exp + loan]

\* Variant: the rows of pending add requests are counted as well.
EventDetailStatsCountsPending(rows) ==
  LET committedTx == rows
      coll == ReduceAmount(OfType(committedTx, "collection"), 0)
      exp == ReduceAmount(OfType(committedTx, "expense"), 0)
      loan == ReduceAmount(OfType(committedTx, "loan"), 0)
  IN [coll |-> coll, exp |-> exp, loan |-> loan, bal |-> coll - exp]

\* EventDetail: committedTx, coll, exp, loan and bal of the render.
EventDetailStats(rows) ==
  LET Committed(t) == ~t._isPending \/ t._pendingAction # "add"
      committedTx == Filter(rows, Committed)
      coll == ReduceAmount(OfType(committedTx, "collection"), 0)
      exp == ReduceAmount(OfType(committedTx, "expense"), 0)
      loan == ReduceAmount(OfType(committedTx, "loan"), 0)
  IN [coll |-> coll, exp |-> exp, loan |-> loan, bal |-> coll - exp]

\* Dashboard: event.transactions.forEach of the global stats; totals holds
\* totalCollection, totalExpense and totalLoan.
RECURSIVE TransactionsForEach(_, _)
TransactionsForEach(txs, totals) ==
  IF txs = <<>> THEN totals
  ELSE TransactionsForEach(
         Tail(txs),
         IF Head(txs).type \in DOMAIN totals
         THEN [totals EXCEPT ![Head(txs).type] = @ + Head(txs).amount]
         ELSE totals)

\* Dashboard: events.forEach of the global stats.
RECURSIVE EventsForEach(_, _)
EventsForEach(evs, totals) ==
  IF evs = <<>> THEN totals
  ELSE EventsForEach(Tail(evs), TransactionsForEach(Head(evs).transactions, totals))

\* Dashboard: the global stats and remainingBalance of the render.
DashboardStats(evs) ==
  LET totals == EventsForEach(evs, [collection |-> 0, expense |-> 0, loan |-> 0])
  IN [coll |-> totals.collection, exp |-> totals.expense, loan |-> totals.loan,
      bal |-> totals.collection - totals.expense]

\* History: the stats a page shows.
Shown(page, stats) == Spread([op |-> page], stats)

\* The event page renders the stats of the view it holds.
EventDetailRender ==
  /\ event # NoEvent
  /\ last' = Shown("EventDetail", EventDetailStats(displayTransactions))
  /\ UNCHANGED <<serverVars, pageVars, approveVars, resolved, connectionVars, sessionVars>>

\* The Dashboard renders the global stats of the events it loaded.
DashboardRender ==
  /\ last' = Shown("Dashboard", DashboardStats(getEvents(events)))
  /\ UNCHANGED <<serverVars, pageVars, approveVars, resolved, connectionVars, sessionVars>>

\* The requests the assistant may have pending for the first event of evs:
\* an added transaction, and an update and a delete of its first one.
StatsRequests(evs, now) ==
  LET txs == evs[1].transactions
      Made(type, data) ==
        createRequest(<<>>, evs, type, Spread([eventId |-> 1, eventName |-> "Gala"], data),
                      <<type>>, Username("assistant"), now).requests
  IN {<<>>, Made("add_transaction",
                 [transaction |-> [FormTickets EXCEPT !.amount = 1500]])}
     \cup (IF txs = <<>> THEN {}
           ELSE {Made("update_transaction",
                      [transaction |-> [txs[1] EXCEPT !.amount = 1500, !.type = "loan"]]),
                 Made("delete_transaction",
                      [transactionId |-> txs[1].id, transactionName |-> txs[1].name])})

\* The stores: the event Gala with transactions of forms, alone or followed
\* by the event Fair with one collection of 200.
StatsStores(forms) ==
  LET gala == Seeded(createEvent(<<>>, "Gala", 1).events, forms, 2)
      next == Len(forms) + 2
  IN {gala,
      addTransaction(createEvent(gala, "Fair", next).events, next,
                     [FormTickets EXCEPT !.amount = 200], next + 1).events}

InitStats ==
  /\ \E n \in 0..StatsMaxTransactions : \E forms \in [1..n -> StatsForms] :
       /\ events \in StatsStores(forms)
       /\ clock = n + 5
       /\ requests \in StatsRequests(events, n + 4)
  /\ id = 0
  /\ event = NoEvent
  /\ displayTransactions = <<>>
  /\ approveStep = 0
  /\ approveReq = NoRequest
  /\ approveCaller = "none"
  /\ last = NoLast
  /\ resolved = {}
  /\ isDbConnected = TRUE
  /\ inflight = {}
  /\ user = NoUser
  /\ testingMode = FALSE
  /\ auth = seedAuth

NextStats ==
  \/ useEffectLoadEvent(1)
  \/ EventDetailRender
  \/ DashboardRender

SpecStats == InitStats /\ [][NextStats]_vars

\* The sum of the amounts of the transactions of type among txs.
RECURSIVE Total(_, _)
Total(txs, type) ==
  IF txs = <<>> THEN 0
  ELSE Total(SubSeq(txs, 1, Len(txs) - 1), type)
       + (IF txs[Len(txs)].type = type THEN txs[Len(txs)].amount ELSE 0)

\* The committed transactions of the live events, one event after another.
RECURSIVE LiveTransactions(_)
LiveTransactions(evs) ==
  IF evs = <<>> THEN <<>>
  ELSE (IF Head(evs).isDeleted THEN <<>> ELSE Head(evs).transactions)
       \o LiveTransactions(Tail(evs))

\* C15: the balance the event page shows is the sum of the committed
\* collections of the event minus the sum of its committed expenses, and the
\* balance of the Dashboard is the same over the committed transactions of
\* the live events; the loans are shown on their own and are no part of the
\* balance, and neither is what a pending request would add or change.
C15_BalanceExcludesLoans ==
  /\ last.op = "EventDetail" =>
       LET txs == GetEvent(events, id).transactions
       IN /\ last.coll = Total(txs, "collection")
          /\ last.exp = Total(txs, "expense")
          /\ last.loan = Total(txs, "loan")
          /\ last.bal = Total(txs, "collection") - Total(txs, "expense")
  /\ last.op = "Dashboard" =>
       LET txs == LiveTransactions(events)
       IN /\ last.coll = Total(txs, "collection")
          /\ last.exp = Total(txs, "expense")
          /\ last.loan = Total(txs, "loan")
          /\ last.bal = Total(txs, "collection") - Total(txs, "expense")

\* The event page shows collections 1500, expenses 400, loans 200 and the
\* balance 1100, while a request to add a collection is pending.
C15_Witness ==
  /\ last.op = "EventDetail"
  /\ last.coll = 1500 /\ last.exp = 400 /\ last.loan = 200
  /\ last.bal = 1100
  /\ \E r \in Range(requests) : r.type = "add_transaction"

\* The step is a call of the API that arrives now, connects telling whether
\* the connection attempt of the middleware succeeds.
ApiArrives(connects) ==
  \/ ApiGetEvents(connects)
  \/ \E name \in EventNames : ApiPostEvents(connects, name)
  \/ \E eid \in EventIds : ApiPutEventDelete(connects, eid)
  \/ \E eid \in EventIds : ApiPutEventRestore(connects, eid)
  \/ \E eid \in EventIds, destroys \in BOOLEAN : ApiDeleteEvent(connects, eid, destroys)
  \/ \E eid \in EventIds, fields \in Forms : ApiPostEventTransactions(connects, eid, fields)
  \/ \E eid \in EventIds, fields \in Forms :
       \E t \in TransactionsOf(eid) \cup {NoTx} :
          ApiPutEventTransaction(connects, eid, Spread(t, fields))
  \/ \E eid \in EventIds, destroys \in BOOLEAN :
       \E t \in TransactionsOf(eid) \cup {NoTx} :
          ApiDeleteEventTransaction(connects, eid, t.id, destroys)
  \/ \E eid \in EventIds :
       \E p \in RequestPayloads(eid) : ApiPostRequests(connects, p[1], p[2])
  \/ \E rid \in RequestIds, body \in PutRequestBodies(clock) :
       ApiPutRequest(connects, rid, body)
  \/ \E rid \in RequestIds : ApiDeleteRequest(connects, rid)
  \/ ApiPostRequestsMarkRead(connects)

\* C16: a call of the API that arrives while the server is not connected,
\* and whose connection attempt fails, is answered 503 and runs no handler:
\* the events, the requests and the submissions in flight are as before, and
\* the server is still not connected.
C16_UnavailableAnswersError ==
  [][(~isDbConnected /\ ApiArrives(FALSE)) =>
        /\ last'.status = 503
        /\ last'.destroy = {}
        /\ UNCHANGED <<events, requests, inflight>>
        /\ ~isDbConnected']_vars

\* A call was answered 503 by a server that is not connected and holds an
\* event and a request the call could have changed.
C16_Witness ==
  /\ ~isDbConnected
  /\ last.status = 503
  /\ events # <<>>
  /\ requests # <<>>

\* The public ids of the images held by the transactions txs.
PublicIds(txs) == {PublicId(t.image) : t \in {t \in txs : HasRelease(t)}}

\* A removal of a transaction whose handler runs asks for the release of the
\* image of the transaction and removes the transaction, whether the destroy
\* call resolves or rejects.
C17_RemovalIsBestEffort ==
  [][\A eid \in EventIds \ {0} : \A t \in TransactionsOf(eid) :
        (/\ \E connects \in BOOLEAN, destroys \in BOOLEAN :
               ApiDeleteEventTransaction(connects, eid, t.id, destroys)
         /\ isDbConnected')
        => /\ last'.status = 200
           /\ last'.destroy = PublicIds({t})
           /\ FindIndex(GetEvent(events', eid).transactions, t.id) = 0]_vars

\* C17: a purge whose handler runs asks for the release of the image of
\* every transaction the event held, a removal of a transaction for the
\* release of its image, and both complete whether the release succeeds or
\* fails: the event, or the transaction, is gone from the store.
C17_ReleaseIsBestEffort ==
  [][/\ \A eid \in EventIds \ {0} :
          (/\ \E connects \in BOOLEAN, destroys \in BOOLEAN :
                 ApiDeleteEvent(connects, eid, destroys)
           /\ isDbConnected')
          => /\ last'.destroy = PublicIds(TransactionsOf(eid))
             /\ last'.status = 200
             /\ GetEvent(events', eid) = NoEvent
     /\ \A eid \in EventIds \ {0} : \A t \in TransactionsOf(eid) :
          (/\ \E connects \in BOOLEAN, destroys \in BOOLEAN :
                 ApiDeleteEventTransaction(connects, eid, t.id, destroys)
           /\ isDbConnected')
          => /\ last'.status = 200
             /\ last'.destroy = PublicIds({t})
             /\ FindIndex(GetEvent(events', eid).transactions, t.id) = 0
    ]_vars

\* A purge asked for the release of an image, was answered 500, and the
\* event with the transaction that holds the image is still in the store.
C17_Witness ==
  /\ last.status = 500
  /\ last.destroy # {}
  /\ \E e \in Range(events) : last.destroy = PublicIds(Range(e.transactions))

\* C18: submissions that are in flight together are stored one by one, in
\* any order: a submission that is answered with success is in the queue
\* exactly once, as it was sent, after every request that was there, and
\* these are left as they were; the ids of the queue are distinct, and a
\* submission still in flight is not in the queue.
C18_ConcurrentSubmissionsKept ==
  [][\A requestData \in inflight :
        (ApiPostRequestsCreate(requestData) /\ last'.status = 200)
        => /\ requests' = Append(requests, requestData)
           /\ Cardinality({i \in DOMAIN requests' : requests'[i].id = requestData.id}) = 1
           /\ inflight' = inflight \ {requestData}
           /\ \A i, j \in DOMAIN requests' : requests'[i].id = requests'[j].id => i = j
           /\ \A other \in inflight' : FindIndex(requests', other.id) = 0]_vars

\* Two submissions were in flight together: the one that arrived second was
\* stored first, and both are in the queue.
C18_Witness ==
  /\ inflight = {}
  /\ Len(requests) = 2
  /\ requests[1].id > requests[2].id
  /\ last.status = 200

\* C19: a reject or a cancel of a request that is no longer in the queue
\* goes through as if it had deleted it (the handler carries on and reloads)
\* and changes neither the queue nor the store.
C19_ResolvedRejectIsNoOp ==
  [][(last'.op \in {"reject", "cancel"} /\ ~last'.removed) =>
        /\ requests' = requests
        /\ events' = events
        /\ resolved' = resolved
        /\ last'.req = NoRequest]_vars

\* A row of a request that was resolved from the Dashboard has been rejected
\* or cancelled on an event page that still showed it, while another request
\* is pending.
C19_Witness ==
  /\ last.op \in {"reject", "cancel"}
  /\ ~last.removed
  /\ resolved # {}
  /\ requests # <<>>

(***************************************************************************)
(* The transaction form on its own: an event with committed transactions,  *)
(* the name and the amount as they are typed, and the two save handlers    *)
(* from their first line.                                                  *)
(***************************************************************************)
FormMaxLen == 2   \* characters typed into the amount field

\* What is typed into the amount field, character by character.
FormChars == {"5", "a"}

Typed == UNION {[1..n -> FormChars] : n \in 0..FormMaxLen}

FormNames == {"", "Tickets"}

Digits == {"5"}

DigitValue(c) == 5

\* <input type="number">, without min: the value handed to onChange is the
\* text when it is a number, a minus sign in front included, and the empty
\* string otherwise.
NumberInput(typed) ==
  LET digits == IF typed # <<>> /\ Head(typed) = "-" THEN Tail(typed) ELSE typed
  IN IF digits # <<>> /\ \A i \in DOMAIN digits : digits[i] \in Digits THEN typed ELSE <<>>

\* parseFloat's NaN: a value no text over Digits stands for.
NaN == -1

\* parseFloat(text): the number the longest numeric prefix stands for, after
\* a minus sign if there is one; NaN when no digit comes first.
RECURSIVE ParsePrefix(_, _)
ParsePrefix(text, a) ==
  IF text = <<>> \/ Head(text) \notin Digits THEN a
  ELSE ParsePrefix(Tail(text), 10 * a + DigitValue(Head(text)))

parseFloat(text) ==
  LET negative == text # <<>> /\ Head(text) = "-"
      digits == IF negative THEN Tail(text) ELSE text
  IN IF digits = <<>> \/ Head(digits) \notin Digits THEN NaN
     ELSE IF negative THEN 0 - ParsePrefix(digits, 0) ELSE ParsePrefix(digits, 0)

isNaN(x) == x = NaN

\* formData with the name and the amount the inputs hold.
FormData(name, typed) == [FormTickets EXCEPT !.name = name, !.amount = NumberInput(typed)]

\* Variant: the handler goes on whatever the form holds.
PassesValidationAlways(formData) == TRUE

\* if (!formData.name || !formData.amount) return; amount =
\* parseFloat(formData.amount); if (isNaN(amount)) return;
PassesValidation(formData) ==
  /\ formData.name # ""
  /\ formData.amount # <<>>
  /\ ~isNaN(parseFloat(formData.amount))

\* newTxData: the form with the parsed amount.
NewTxData(formData) == [formData EXCEPT !.amount = parseFloat(formData.amount)]

\* History: the handler returned at its validation.
Returned(role) == last' = [NoLast EXCEPT !.op = "return", !.by = role]

\* EventDetail.handleSaveTransaction from its first line.
handleSaveTransactionForm(role, formData, editingTransaction) ==
  IF PassesValidation(formData)
  THEN handleSaveTransaction(role, NewTxData(formData), editingTransaction)
  ELSE /\ Idle
       /\ event # NoEvent
       /\ IF editingTransaction # NoEditing THEN ShowsEdit(role, editingTransaction)
          ELSE CanManage(role)
       /\ Returned(role)
       /\ UNCHANGED <<serverVars, pageVars, approveVars, resolved, connectionVars, sessionVars>>

\* Dashboard.handleSaveTransaction from its first line.
dashboardHandleSaveTransactionForm(role, selectedEventId, editingTransaction, formData) ==
  IF PassesValidation(formData)
  THEN dashboardHandleSaveTransaction(role, selectedEventId, editingTransaction,
                                      NewTxData(formData))
  ELSE /\ Idle
       /\ CanManage(role)
       /\ Returned(role)
       /\ UNCHANGED <<serverVars, pageVars, approveVars, resolved, connectionVars, sessionVars>>

\* The forms the inputs can hold.
TypedForms == {FormData(name, typed) : name \in FormNames, typed \in Typed}

NextForm ==
  \/ \E e \in Range(events) : useEffectLoadEvent(e.id)
  \/ \E role \in Roles, formData \in TypedForms, tx \in Rows :
       handleSaveTransactionForm(role, formData, tx)
  \/ \E role \in Roles, e \in Range(getEvents(events)), formData \in TypedForms :
       \E tx \in Range(e.transactions) :
          /\ role = "assistant" => clock <= MaxClock /\ Len(requests) < MaxRequests
          /\ dashboardHandleSaveTransactionForm(role, e.id, tx, formData)

SpecForm == InitMerge /\ [][NextForm]_vars

\* The transaction has a name and an amount that is a number.
Filled(t) == t.name # "" /\ t.amount \in Nat

\* C20: a save with a missing name, a missing amount or an amount that is
\* no number returns before anything is sent: the queue and the store are
\* as they were.  So every transaction of the store, and every transaction
\* a pending request carries, has a name and a numeric amount.
C20_InvalidFormStoresNothing ==
  [][/\ last'.op = "return" => UNCHANGED <<events, requests, clock>>
     /\ \A e \in Range(events') : \A t \in Range(e.transactions) : Filled(t)
     /\ \A r \in Range(requests') :
          "transaction" \in DOMAIN r.data => Filled(r.data.transaction)]_vars

\* The assistant's save of a form without a name or a numeric amount has
\* returned while the page is open on an event: nothing is pending.
C20_Witness ==
  /\ last.op = "return"
  /\ last.by = "assistant"
  /\ event # NoEvent
  /\ requests = <<>>

(***************************************************************************)
(* The merged view of the event page, over stores and queues of pending    *)
(* requests of every kind.                                                 *)
(***************************************************************************)
ViewMaxTransactions == 1   \* committed transactions of the event
ViewMaxRequests == 2       \* pending requests of the event

\* Filled-in forms of the three types.
ViewForms ==
  {[FormTickets EXCEPT !.type = "collection", !.amount = 1500],
   [FormHall EXCEPT !.type = "expense", !.amount = 400],
   [FormTickets EXCEPT !.type = "loan", !.amount = 200]}

\* What the assistant may ask for on the event page or the Dashboard: a new
\* transaction, or the update or the removal of the transaction target.
ViewPlans(targets) ==
  {[type |-> "add_transaction", target |-> 0]}
  \cup {[type |-> type, target |-> k] :
          type \in {"update_transaction", "delete_transaction"}, k \in targets}

\* The payload of the request of plan p against the store evs.
ViewPlanData(evs, p) ==
  LET tx == GetEvent(evs, 1).transactions[FindIndex(GetEvent(evs, 1).transactions, p.target)]
  IN Spread([eventId |-> 1, eventName |-> "Gala"],
       CASE p.type = "add_transaction" ->
              [transaction |-> [FormTickets EXCEPT !.type = "collection", !.amount = 200]]
         [] p.type = "update_transaction" ->
              [transaction |-> [tx EXCEPT !.amount = 700, !.type = "loan"]]
         [] OTHER ->
              [transactionId |-> tx.id, transactionName |-> tx.name])

\* The queue after the requests of plans were created one after another
\* against the store evs, the first with the id now.
RECURSIVE ViewRequests(_, _, _, _)
ViewRequests(reqs, evs, plans, now) ==
  IF plans = <<>> THEN reqs
  ELSE ViewRequests(
         createRequest(reqs, evs, Head(plans).type, ViewPlanData(evs, Head(plans)),
                       <<Head(plans).type>>, Username("assistant"), now).requests,
         evs, Tail(plans), now + 1)

\* The store holds the event Gala with n committed transactions; one more
\* transaction, the last, was committed and removed by the admin after the
\* requests were made, so that a request for it has lost its target.
InitView ==
  /\ \E n \in 0..ViewMaxTransactions : \E forms \in [1..n -> ViewForms] :
       LET full == Seeded(createEvent(<<>>, "Gala", 1).events,
                          forms \o <<[FormHall EXCEPT !.amount = 50]>>, 2)
       IN /\ events = deleteTransaction(full, 1, n + 2, TRUE).events
          /\ \E m \in 0..ViewMaxRequests : \E plans \in [1..m -> ViewPlans(2..(n + 2))] :
               /\ requests = ViewRequests(<<>>, full, plans, n + 3)
               /\ clock = n + 3 + m
  /\ id = 0
  /\ event = NoEvent
  /\ displayTransactions = <<>>
  /\ approveStep = 0
  /\ approveReq = NoRequest
  /\ approveCaller = "none"
  /\ last = NoLast
  /\ resolved = {}
  /\ isDbConnected = TRUE
  /\ inflight = {}
  /\ user = NoUser
  /\ testingMode = FALSE
  /\ auth = seedAuth

\* downloadPDF: committedTransactions, c, e, l and b of the summary.
downloadPDFStats(rows) ==
  LET Committed(t) == ~t._isPending \/ t._pendingAction # "add"
      committedTransactions == Filter(rows, Committed)
      c == ReduceAmount(OfType(committedTransactions, "collection"), 0)
      e == ReduceAmount(OfType(committedTransactions, "expense"), 0)
      l == ReduceAmount(OfType(committedTransactions, "loan"), 0)
  IN [coll |-> c, exp |-> e, loan |-> l, bal |-> c - e]

\* downloadPDF: the financial summary of the document of the view held.
downloadPDF ==
  /\ event # NoEvent
  /\ last' = Shown("downloadPDF", downloadPDFStats(displayTransactions))
  /\ UNCHANGED <<serverVars, pageVars, approveVars, resolved, connectionVars, sessionVars>>

NextView ==
  \/ useEffectLoadEvent(1)
  \/ EventDetailRender
  \/ downloadPDF

SpecView == InitView /\ [][NextView]_vars

\* The requests of the event of the page, in the order of fetched.
Mine(fetched) == getPendingRequestsByEvent(fetched, id)

\* The committed transactions of the event of the page.
CommittedTransactions == GetEvent(events, id).transactions

\* The row shows the values of the committed transaction tx.
ShowsCommitted(row, tx) == [f \in DOMAIN tx |-> row[f]] = tx

\* C21: for a pending update request whose target is committed, the row of
\* the target in the merged view shows the committed name, amount, type,
\* date, description and image, not the proposed ones; folding the request
\* flags the row as a pending update and attaches the proposed record as
\* pendingData, and the row is displayed so when no request returned after
\* it has the same target.
C21_UpdateOverlayKeepsCommitted ==
  \A fetched \in GetRequests(requests) :
    ViewOf(fetched) =>
      \A j \in DOMAIN Mine(fetched) :
        LET req == Mine(fetched)[j]
            i == IF req.type = "update_transaction"
                 THEN FindIndex(CommittedTransactions, req.data.transaction.id) ELSE 0
            folded == MergedTransactions(GetEvent(events, id), SubSeq(Mine(fetched), 1, j))
            row == displayTransactions[i]
        IN i # 0 =>
             /\ ShowsCommitted(row, CommittedTransactions[i])
             /\ row._isPending
             /\ ShowsCommitted(folded[i], CommittedTransactions[i])
             /\ folded[i]._pendingAction = "update"
             /\ folded[i]._pendingData = req.data.transaction
             /\ folded[i]._requestId = req.id
             /\ j = Max(Hits(fetched, id, CommittedTransactions[i].id)) =>
                  /\ row._pendingAction = "update"
                  /\ row._pendingData = req.data.transaction
                  /\ row._requestId = req.id

\* The page shows the expense of 400 with a pending update that proposes a
\* loan of 700.
C21_Witness ==
  /\ Len(displayTransactions) = 1
  /\ Len(requests) = 1
  /\ displayTransactions[1].type = "expense"
  /\ displayTransactions[1].amount = 400
  /\ displayTransactions[1]._pendingAction = "update"
  /\ displayTransactions[1]._pendingData.type = "loan"
  /\ displayTransactions[1]._pendingData.amount = 700

\* The add requests among the requests of the event of the page.
AddRequests(fetched) ==
  LET IsAdd(r) == r.type = "add_transaction" IN Filter(Mine(fetched), IsAdd)

\* C22: every pending add request of the event has exactly one synthetic
\* row in the merged view: the proposed transaction under the id of the
\* request, flagged as a pending add; the rows of the view are the committed
\* transactions followed by one row for each add request.
C22_OneSyntheticRowPerAdd ==
  \A fetched \in GetRequests(requests) :
    ViewOf(fetched) =>
      LET adds == AddRequests(fetched)
          n == Len(CommittedTransactions)
      IN /\ Len(displayTransactions) = n + Len(adds)
         /\ \A k \in DOMAIN adds :
              LET row == displayTransactions[n + k]
              IN /\ row.id = adds[k].id
                 /\ row._isPending
                 /\ row._pendingAction = "add"
                 /\ row._requestId = adds[k].id
                 /\ row._fullRequest = adds[k]
                 /\ ShowsCommitted(row, adds[k].data.transaction)
                 /\ Cardinality({i \in DOMAIN displayTransactions :
                                   displayTransactions[i].id = adds[k].id}) = 1
         /\ \A i \in 1..n : displayTransactions[i].id = CommittedTransactions[i].id

\* The page shows the committed transaction and the rows of two pending add
\* requests.
C22_Witness ==
  /\ id = 1
  /\ Len(GetEvent(events, 1).transactions) = 1
  /\ Len(requests) = 2
  /\ \A r \in Range(requests) : r.type = "add_transaction"
  /\ Len(displayTransactions) = 3
  /\ displayTransactions[3]._pendingAction = "add"

\* The requests of the event of the page whose target is not committed.
Orphans(fetched) ==
  LET Orphaned(r) == r.type \in {"update_transaction", "delete_transaction"}
                     /\ TargetMissing(events, r)
  IN Filter(Mine(fetched), Orphaned)

\* C23: a pending update or delete request whose target is not among the
\* committed transactions is still displayed in the merged view: some row of
\* the view is the row of the request.
C23_OrphanStillDisplayed ==
  \A fetched \in GetRequests(requests) :
    ViewOf(fetched) =>
      \A r \in Range(Orphans(fetched)) :
        \E i \in DOMAIN displayTransactions : displayTransactions[i]._requestId = r.id

\* The page was loaded while the only request pending asks to update a
\* transaction the admin has removed, and its view has no row at all.
C23_Witness ==
  /\ id = 1
  /\ event # NoEvent
  /\ Len(requests) = 1
  /\ requests[1].type = "update_transaction"
  /\ TargetMissing(events, requests[1])
  /\ displayTransactions = <<>>

\* The totals of the transactions txs and the balance they give.
TotalsOf(txs) ==
  [coll |-> Total(txs, "collection"), exp |-> Total(txs, "expense"),
   loan |-> Total(txs, "loan"),
   bal |-> Total(txs, "collection") - Total(txs, "expense")]

\* C26: whatever requests are pending for the event (adds, updates, deletes,
\* with or without a committed target), the collection, expense, loan and
\* balance the page computes from its merged view, on the screen and in the
\* PDF summary, are those of the committed transactions alone.
C26_TotalsIgnorePending ==
  /\ \A fetched \in GetRequests(requests) :
       ViewOf(fetched) =>
         /\ EventDetailStats(displayTransactions) = TotalsOf(CommittedTransactions)
         /\ downloadPDFStats(displayTransactions) = TotalsOf(CommittedTransactions)
  /\ last.op \in {"EventDetail", "downloadPDF"} =>
       [f \in DOMAIN TotalsOf(<<>>) |-> last[f]] = TotalsOf(CommittedTransactions)

\* The PDF summary gives expenses 400, no collection, no loan and the balance
\* -400 while a request to add a collection of 200 and a request to turn
\* the expense into a loan of 700 are pending.
C26_Witness ==
  /\ last.op = "downloadPDF"
  /\ last.coll = 0
  /\ last.exp = 400
  /\ last.loan = 0
  /\ last.bal = -400
  /\ Len(displayTransactions) = 2
  /\ displayTransactions[1]._pendingAction = "update"
  /\ displayTransactions[1].type = "expense"
  /\ displayTransactions[2]._pendingAction = "add"

(***************************************************************************)
(* An approval by the admin racing an edit by the proposer, who works on   *)
(* a client of their own.                                                  *)
(***************************************************************************)
RaceMaxClock == 4   \* the last time at which an edit is sent

\* The proposer's handleSaveTransaction on the row of their pending request
\* req, on their own event page: updateRequest with the new payload.  The
\* page of the admin is not reloaded by it.
proposerHandleSaveTransaction(req, formData) ==
  /\ req \in loadRequests(requests, "assistant")
  /\ req.type \in {"add_transaction", "update_transaction"}
  /\ clock <= RaceMaxClock
  /\ LET eventName == req.data.eventName
         payload(tx) == [eventId |-> req.data.eventId, eventName |-> eventName,
                         transaction |-> tx]
     IN requests' =
          IF req.type = "add_transaction"
          THEN updateRequest(requests, req.id, payload(formData),
                             AddDescription(formData, eventName), clock).requests
          ELSE updateRequest(requests, req.id,
                             payload(Spread(formData, [id |-> req.data.transaction.id])),
                             UpdateDescription(formData, eventName), clock).requests
  /\ clock' = clock + 1
  /\ UNCHANGED <<events, pageVars, approveVars, historyVars, connectionVars, sessionVars>>

\* The event Gala with a pending request of the assistant: a transaction to
\* add, or an update of its only committed transaction.
InitRace ==
  /\ \/ /\ events = createEvent(<<>>, "Gala", 1).events
        /\ requests = ViewRequests(<<>>, events,
                                   <<[type |-> "add_transaction", target |-> 0]>>, 2)
        /\ clock = 3
     \/ /\ events = Seeded(createEvent(<<>>, "Gala", 1).events, <<FormTickets>>, 2)
        /\ requests = ViewRequests(<<>>, events,
                                   <<[type |-> "update_transaction", target |-> 2]>>, 3)
        /\ clock = 4
  /\ id = 0
  /\ event = NoEvent
  /\ displayTransactions = <<>>
  /\ approveStep = 0
  /\ approveReq = NoRequest
  /\ approveCaller = "none"
  /\ last = NoLast
  /\ resolved = {}
  /\ isDbConnected = TRUE
  /\ inflight = {}
  /\ user = NoUser
  /\ testingMode = FALSE
  /\ auth = seedAuth

NextRace ==
  \/ useEffectLoadEvent(1)
  \/ \E req \in Range(requests), formData \in Forms :
       proposerHandleSaveTransaction(req, formData)
  \/ \E req \in Range(requests), ok \in BOOLEAN : handleApproveRequest("admin", req, ok)
  \/ \E tx \in Range(displayTransactions), ok \in BOOLEAN :
       handleApproveTransaction("admin", tx, ok)
  \/ \E ok \in BOOLEAN : approveRequest(ok)

SpecRace == InitRace /\ [][NextRace]_vars

\* The store evs shows the payload of the request req as applied.
AppliedIn(evs, req) ==
  LET txs == GetEvent(evs, req.data.eventId).transactions
      i == IF req.type = "add_transaction" THEN Len(txs)
           ELSE FindIndex(txs, req.data.transaction.id)
  IN i # 0 /\ ShowsCommitted(txs[i], req.data.transaction)

\* The request object the admin holds: a request of the list, or the
\* _fullRequest of a row of the event page as it was loaded.
HeldByApprover(req) ==
  \/ req \in Range(requests)
  \/ \E tx \in Range(displayTransactions) : tx._fullRequest = req

\* C24: an approval applies the payload of the request object the approver
\* held when approve was invoked, whatever the queue holds by then; an edit
\* by the proposer changes only the document in the queue, not the store and
\* not the object an approval under way works on; and the approval then
\* removes the request, edited or not, without touching the store again, so
\* the edited payload is never applied.
C24_ApproveAppliesPayloadRead ==
  [][/\ (approveStep = 0 /\ approveStep' = 2) =>
          /\ HeldByApprover(approveReq')
          /\ AppliedIn(events', approveReq')
     /\ (approveStep = 2 /\ requests' # requests /\ approveStep' = 2) =>
          /\ events' = events
          /\ approveReq' = approveReq
          /\ AppliedIn(events', approveReq)
     /\ (approveStep = 2 /\ last'.ended = "returned") =>
          /\ events' = events
          /\ FindIndex(requests', approveReq.id) = 0
          /\ AppliedIn(events', approveReq)]_vars

\* The effect of an approval has been applied with the payload the admin
\* read, the proposer's edit has landed since, and the request is about to be
\* removed.
C24_Witness ==
  /\ approveStep = 2
  /\ FindIndex(requests, approveReq.id) # 0
  /\ requests[FindIndex(requests, approveReq.id)].data # approveReq.data
  /\ AppliedIn(events, approveReq)
  /\ ~AppliedIn(events, requests[FindIndex(requests, approveReq.id)])

(***************************************************************************)
(* The session of a browser: login, logout, testing mode and the role      *)
(* switch, against the Auth collection.                                    *)
(***************************************************************************)
\* What is typed into the login form and the credentials form.
AuthNames == {"", "admin", "assi"}
AuthPasswords == {"", "admin", "assi"}

\* app.post('/api/auth/login'): Auth.findOne({ username, password }); with
\* more than one match the document returned is the one the scan yields.
PostAuthLogin(docs, username, password) ==
  LET Matches(a) == a.username = username /\ a.password = password
      found == Range(Filter(docs, Matches))
  IN IF found = {} THEN {[success |-> FALSE, role |-> "none", username |-> ""]}
     ELSE {[success |-> TRUE, role |-> a.role, username |-> a.username] : a \in found}

\* app.put('/api/auth/update'): Auth.findOneAndUpdate({ role }, update).
PutAuthUpdate(docs, role, username, password) ==
  LET update == IF password # "" THEN [username |-> username, password |-> password]
                ELSE [username |-> username]
  IN [i \in DOMAIN docs |-> IF docs[i].role = role THEN Spread(docs[i], update) ELSE docs[i]]

\* Login.handleSubmit with the tab role selected, and App.handleLogin.
handleSubmit(role, username, password) ==
  /\ user = NoUser
  /\ \E result \in PostAuthLogin(auth, username, password) :
       user' = IF username # "" /\ password # "" /\ result.success /\ result.role = role
               THEN [username |-> IF result.username # "" THEN result.username ELSE username,
                     role |-> result.role,
                     originalRole |-> IF result.role = "admin" THEN "admin" ELSE "none"]
               ELSE user
  /\ UNCHANGED <<serverVars, pageVars, approveVars, historyVars, connectionVars,
                 testingMode, auth>>

\* App.handleLogout.
handleLogout ==
  /\ user # NoUser
  /\ user' = NoUser
  /\ testingMode' = FALSE
  /\ UNCHANGED <<serverVars, pageVars, approveVars, historyVars, connectionVars, auth>>

\* Variant: the role is switched for every session.
handleSwitchRoleGuardAlways(u) == TRUE

\* App.handleSwitchRole: user && user.originalRole === 'admin'.
handleSwitchRoleGuard(u) == u # NoUser /\ u.originalRole = "admin"

\* App.handleSwitchRole(newRole).
handleSwitchRole(newRole) ==
  /\ user # NoUser
  /\ user' = IF handleSwitchRoleGuard(user) THEN [user EXCEPT !.role = newRole] ELSE user
  /\ UNCHANGED <<serverVars, pageVars, approveVars, historyVars, connectionVars,
                 testingMode, auth>>

\* Dashboard settings, open to the role admin: onToggleTestingMode.
onToggleTestingMode ==
  /\ user.role = "admin"
  /\ testingMode' = ~testingMode
  /\ UNCHANGED <<serverVars, pageVars, approveVars, historyVars, connectionVars,
                 user, auth>>

\* Dashboard settings, open to the role admin: handleUpdateCredentials(role)
\* with what the form of the role holds.
handleUpdateCredentials(role, username, password) ==
  /\ user.role = "admin"
  /\ auth' = IF username = "" THEN auth ELSE PutAuthUpdate(auth, role, username, password)
  /\ UNCHANGED <<serverVars, pageVars, approveVars, historyVars, connectionVars,
                 user, testingMode>>

NextSession ==
  \/ \E role \in Roles, username \in AuthNames, password \in AuthPasswords :
       handleSubmit(role, username, password)
  \/ handleLogout
  \/ \E newRole \in Roles : handleSwitchRole(newRole)
  \/ onToggleTestingMode
  \/ \E role \in Roles, username \in AuthNames, password \in AuthPasswords :
       handleUpdateCredentials(role, username, password)

SpecSession == Init /\ [][NextSession]_vars

\* C30: a session that logged in as assistant or user never has the role
\* admin; a call of the role switch changes the role only of a session whose
\* originalRole is admin; originalRole is admin only after a login that
\* authenticated as the account of the role admin, and no step of a session
\* changes it; and a logout leaves no user and testing mode off.
C30_LimitedSessionNeverAdmin ==
  [][/\ (user # NoUser /\ user.originalRole # "admin") => user'.role # "admin"
     /\ (user # NoUser /\ user' # NoUser) =>
          /\ user'.originalRole = user.originalRole
          /\ user'.role # user.role => user.originalRole = "admin"
     /\ (user = NoUser /\ user' # NoUser) =>
          /\ user'.originalRole = (IF user'.role = "admin" THEN "admin" ELSE "none")
          /\ \E a \in Range(auth) : a.role = user'.role /\ a.username = user'.username
     /\ (user # NoUser /\ user' = NoUser) => ~testingMode']_vars

\* A session that logged in as the assistant is open, while the admin had
\* given the account of the assistant the credentials of the admin account.
C30_Witness ==
  /\ user.role = "assistant"
  /\ user.originalRole = "none"
  /\ user.username = "admin"
  /\ \E a \in Range(auth) : a.role = "admin" /\ a.username = "admin" /\ a.password = "admin"

(***************************************************************************)
(* The requests of an event worked on from two browsers: the assistant's,  *)
(* and the admin's with testing mode on.                                   *)
(***************************************************************************)
\* handleSaveTransaction of the event page, scenario 2, in the browser of the
\* session user while its role is assistant: createRequest with
\* user.username.
sessionHandleSaveTransaction(formData) ==
  /\ Idle
  /\ event # NoEvent
  /\ user.role = "assistant"
  /\ clock <= MaxClock
  /\ Len(requests) < MaxRequests
  /\ requests' = createRequest(requests, events, "add_transaction",
                               [eventId |-> event.id, eventName |-> event.name,
                                transaction |-> formData],
                               AddDescription(formData, event.name),
                               user.username, clock).requests
  /\ clock' = clock + 1
  /\ ReloadPage(events, requests', id)
  /\ Forget(user.username, id' # 0)
  /\ UNCHANGED <<events, approveVars, resolved, connectionVars, sessionVars>>

\* The event Gala without transactions; the admin is logged in and has
\* turned testing mode on.
InitOwner ==
  /\ events = createEvent(<<>>, "Gala", 1).events
  /\ requests = <<>>
  /\ clock = 2
  /\ id = 0
  /\ event = NoEvent
  /\ displayTransactions = <<>>
  /\ approveStep = 0
  /\ approveReq = NoRequest
  /\ approveCaller = "none"
  /\ last = NoLast
  /\ resolved = {}
  /\ isDbConnected = TRUE
  /\ inflight = {}
  /\ user = [username |-> Username("admin"), role |-> "admin", originalRole |-> "admin"]
  /\ testingMode = TRUE
  /\ auth = seedAuth

NextOwner ==
  \/ useEffectLoadEvent(1)
  \/ \E newRole \in Roles : handleSwitchRole(newRole)
  \/ \E formData \in Forms : sessionHandleSaveTransaction(formData)
  \/ \E formData \in Forms, tx \in Rows : handleSaveTransaction("assistant", formData, tx)
  \/ \E tx \in Range(displayTransactions) : confirmDeleteTransaction("assistant", tx)
  \/ \E tx \in Range(displayTransactions) :
       user.role = "admin" /\ handleRejectTransaction("admin", tx)
  \/ \E tx \in Range(displayTransactions), ok \in BOOLEAN :
       user.role = "admin" /\ handleApproveTransaction("admin", tx, ok)
  \/ \E ok \in BOOLEAN : approveRequest(ok)

SpecOwner == InitOwner /\ [][NextOwner]_vars

\* C25: the payload and the description of a pending request are changed
\* only by the proposer who created it (requestedBy), and a request leaves
\* the queue only by a cancel of that proposer or by an approve or a reject
\* of the admin; nobody else edits or cancels it.
C25_OnlyProposerEditsOrCancels ==
  [][\A i \in DOMAIN requests :
       LET r == requests[i]
           j == FindIndex(requests', r.id)
       IN /\ (j # 0 /\ (requests'[j].data # r.data
                        \/ requests'[j].description # r.description)) =>
               last'.by = r.requestedBy
          /\ j = 0 =>
               \/ last'.op = "cancel" /\ last'.by = r.requestedBy
               \/ last'.op \in {"approve", "reject"} /\ last'.by = "admin"]_vars

\* The assistant has cancelled, from the event page, a request that the
\* admin had submitted while switched to the role assistant.
C25_Witness ==
  /\ last.op = "cancel"
  /\ last.by = "assistant"
  /\ last.removed
  /\ last.req.requestedBy = "admin"
  /\ requests = <<>>

(***************************************************************************)
(* Amounts typed with a sign.                                              *)
(***************************************************************************)
\* What is typed into the amount field when the minus key is used.
SignedChars == {"-", "5"}

\* The forms the inputs can hold then, under the name Tickets.
SignedForms ==
  {FormData("Tickets", typed) : typed \in UNION {[1..n -> SignedChars] : n \in 0..FormMaxLen}}

NextAmount ==
  \/ \E e \in Range(events) : useEffectLoadEvent(e.id)
  \/ \E role \in Roles, formData \in SignedForms, tx \in Rows :
       handleSaveTransactionForm(role, formData, tx)
  \/ \E tx \in Range(displayTransactions), ok \in BOOLEAN :
       handleApproveTransaction("admin", tx, ok)
  \/ \E ok \in BOOLEAN : approveRequest(ok)

SpecAmount == InitMerge /\ [][NextAmount]_vars

\* C27: after any sequence of submissions, edits, approvals and direct edits
\* of the admin, every transaction of the committed store has an amount that
\* is not negative.
C27_AmountsNotNegative ==
  \A e \in Range(events) : \A t \in Range(e.transactions) : t.amount >= 0

\* The admin has saved the form with -5 typed as the amount, and the store
\* holds a transaction of -5.
C27_Witness ==
  /\ last.by = "admin"
  /\ \E e \in Range(events) : \E t \in Range(e.transactions) : t.amount = -5

\* The pending update and delete requests that target transaction txId of
\* event eid.
Targeting(eid, txId) ==
  {i \in DOMAIN requests :
     /\ requests[i].data.eventId = eid
     /\ \/ /\ requests[i].type = "update_transaction"
           /\ requests[i].data.transaction.id = txId
        \/ /\ requests[i].type = "delete_transaction"
           /\ requests[i].data.transactionId = txId}

\* C28: after any sequence of actions of the assistant on the event page and
\* the Dashboard, at most one pending update or delete request of the queue
\* targets any committed transaction.
C28_OnePendingRequestPerTransaction ==
  \A e \in Range(events) : \A t \in Range(e.transactions) :
     Cardinality(Targeting(e.id, t.id)) <= 1

\* The assistant has asked twice from the Dashboard for a change of the same
\* committed transaction: an update and a delete of it are both pending.
C28_Witness ==
  \E e \in Range(events) : \E t \in Range(e.transactions) :
     /\ Cardinality(Targeting(e.id, t.id)) = 2
     /\ \E i, j \in Targeting(e.id, t.id) :
          /\ requests[i].type = "update_transaction"
          /\ requests[j].type = "delete_transaction"
          /\ requests[i].requestedBy = Username("assistant")
          /\ requests[j].requestedBy = Username("assistant")

(***************************************************************************)
(* The three transaction routes, each in its two halves: Event.findOne,    *)
(* then event.save() of the document found.  In this specification         *)
(* inflight holds the handlers between the two, and resolved the handlers  *)
(* that have answered.                                                     *)
(***************************************************************************)
StoreMaxHandlers == 2   \* calls of the transaction routes in a run

\* The calls the clients make for event 1: POST of a new transaction under
\* an id the client minted, PUT and DELETE of a stored one.
StoreCalls ==
  {[op |-> "POST", eid |-> 1, txId |-> newId,
    body |-> Spread([FormTickets EXCEPT !.amount = 700], [id |-> newId])] :
     newId \in {4, 5}}
  \cup {[op |-> "PUT", eid |-> 1, txId |-> t.id, body |-> [t EXCEPT !.amount = 900]] :
          t \in TransactionsOf(1)}
  \cup {[op |-> "DELETE", eid |-> 1, txId |-> t.id, body |-> NoTx] :
          t \in TransactionsOf(1)}

\* event.save() of handler h sends a condition on the version of the
\* document: the assignment of an array element by PUT and the assignment
\* of the whole array by DELETE do, the push of POST does not.
SaveChecksVersion(h) ==
  \/ h.op = "DELETE"
  \/ h.op = "PUT" /\ FindIndex(h.read.transactions, h.txId) # 0

\* event.save() of handler h increments the version of the document: the
\* push and the assignment of the whole array do, the assignment of an
\* array element does not.
SaveIncrementsVersion(h) == h.op \in {"POST", "DELETE"}

\* What event.save() of handler h writes into the stored array txs: the
\* pushed element, the element at the index found in the document read, or
\* the array computed from the document read.
SaveWrites(txs, h) ==
  LET idx == FindIndex(h.read.transactions, h.txId)
  IN CASE h.op = "POST" ->
            PostEventTransactions(<<[h.read EXCEPT !.transactions = txs]>>,
                                  h.eid, h.body).events[1].transactions
       [] h.op = "PUT" ->
            IF idx = 0 \/ idx > Len(txs) THEN txs
            ELSE [txs EXCEPT ![idx] =
                    PutEventTransaction(<<h.read>>, h.eid, h.txId,
                                        h.body).events[1].transactions[idx]]
       [] OTHER ->
            DeleteEventTransaction(<<h.read>>, h.eid, h.txId, TRUE).events[1].transactions

\* First half of a transaction route: Event.findOne({ id }).
ApiTransactionsFindOne(call) ==
  /\ Cardinality(inflight) + Cardinality(resolved) < StoreMaxHandlers
  /\ FindEvent(events, call.eid) # 0
  /\ \A h \in inflight \cup resolved : h.txId # call.txId
  /\ inflight' = inflight \cup {Spread(call, [read |-> GetEvent(events, call.eid),
                                              stale |-> FALSE])}
  /\ UNCHANGED <<serverVars, pageVars, approveVars, historyVars, isDbConnected,
                 sessionVars>>

\* Second half: event.save() and the answer.  A save whose version condition
\* matches no document rejects, and the catch answers 500.
ApiTransactionsSave(h) ==
  /\ h \in inflight
  /\ LET i == FindEvent(events, h.eid)
         rejected == SaveChecksVersion(h) /\ h.stale
         written == ~rejected /\ (h.op = "PUT" => SaveChecksVersion(h))
         Outdated(o) == IF written /\ SaveIncrementsVersion(h) /\ o.eid = h.eid
                        THEN [o EXCEPT !.stale = TRUE] ELSE o
         status == IF rejected THEN 500 ELSE 200
     IN /\ events' = IF written
                     THEN [events EXCEPT ![i].transactions = SaveWrites(@, h)]
                     ELSE events
        /\ inflight' = {Outdated(o) : o \in inflight \ {h}}
        /\ resolved' = resolved \cup {Spread(h, [status |-> status])}
        /\ last' = Answer(h.op, status, {})
  /\ UNCHANGED <<requests, clock, pageVars, approveVars, isDbConnected, sessionVars>>

\* The event Gala with two committed transactions.
InitStore ==
  /\ events = Seeded(createEvent(<<>>, "Gala", 1).events,
                     <<FormTickets, [FormHall EXCEPT !.image = ""]>>, 2)
  /\ requests = <<>>
  /\ clock = 4
  /\ id = 0
  /\ event = NoEvent
  /\ displayTransactions = <<>>
  /\ approveStep = 0
  /\ approveReq = NoRequest
  /\ approveCaller = "none"
  /\ last = Answer("listen", 0, {})
  /\ resolved = {}
  /\ isDbConnected = TRUE
  /\ inflight = {}
  /\ user = NoUser
  /\ testingMode = FALSE
  /\ auth = seedAuth

NextStore ==
  \/ \E call \in StoreCalls : ApiTransactionsFindOne(call)
  \/ \E h \in inflight : ApiTransactionsSave(h)

SpecStore == InitStore /\ [][NextStore]_vars

\* The effect of the call h is present in the stored event.
EffectPresent(h) ==
  LET txs == GetEvent(events, h.eid).transactions
      idx == FindIndex(txs, h.txId)
  IN CASE h.op = "POST" -> idx # 0 /\ ShowsCommitted(txs[idx], h.body)
       [] h.op = "PUT" -> idx # 0 /\ ShowsCommitted(txs[idx], h.body)
       [] OTHER -> idx = 0

\* C29: when two mutations of different transactions of the same event have
\* run, in whatever interleaving of their halves, the effects of both are
\* present in the event once both have answered: neither has overwritten
\* the other.
C29_BothEffectsPresent ==
  \A h1 \in resolved, h2 \in resolved :
     (inflight = {} /\ h1 # h2 /\ h1.eid = h2.eid /\ h1.txId # h2.txId) =>
        EffectPresent(h1) /\ EffectPresent(h2)

\* The removal of one transaction and the update of another ran together and
\* both were answered 200, and the stored event holds the other transaction
\* with the amount it had before the update.
C29_Witness ==
  /\ inflight = {}
  /\ \E h1 \in resolved, h2 \in resolved :
       /\ h1.op = "DELETE" /\ h1.status = 200
       /\ h2.op = "PUT" /\ h2.status = 200
       /\ h1.txId # h2.txId
       /\ EffectPresent(h1)
       /\ ~EffectPresent(h2)

============================================================================
